---- MODULE Spec2Model ----
(***************************************************************************)
(* Discrete-event simulator of BPMNOptimizationAgent (src/agent3.ts):      *)
(* simulateProcess, applyScenarioModifications, simulateCase,              *)
(* randomBetween, calculatePerformanceMetrics, calculateWaitingTimes and   *)
(* median; the scenario loops of the exported simulateProcess and of       *)
(* analyzeAndOptimize; withRetry; and the upload handlers of the server    *)
(* (src/unnamed/part_001, src/server.ts).                                  *)
(*                                                                         *)
(* Conventions.                                                            *)
(*  - An optional JavaScript value (undefined / null / missing field) is   *)
(*    a sequence of length at most one: <<>> is absent, <<v>> is v.        *)
(*  - Math.random() returns r / 100 for a draw r; probabilities are kept   *)
(*    in hundredths as well, so "Math.random() < p" is "r < p".            *)
(*  - Timestamps are milliseconds counted from the fixed calendar start    *)
(*    time of a case, new Date(2024, 0, 1, 8, 0, 0).                       *)
(*  - A JavaScript number that need not be whole is an IEEE-754 double:    *)
(*    sign, significand and exponent, every operation rounded to the       *)
(*    nearest double as the code's + * / are, with NaN, Infinity and       *)
(*    -Infinity.  Whole numbers (timestamps, costs, counts) are integers.  *)
(***************************************************************************)
EXTENDS Integers, Sequences, FiniteSets, TLC

VARIABLES
    processStructure,      \* the caller's ProcessStructure, shared by all calls
    scenario,              \* scenario[c]: the Scenario given to call c
    numInstances,          \* numInstances[c]
    pc,                    \* pc[c]: position of call c in simulateProcess
    modifiedActivities,    \* modifiedActivities[c] (agent3.ts:315)
    caseId,                \* caseId[c]: the for-loop variable (agent3.ts:320)
    queue,                 \* queue[c]: the work queue of simulateCase
    visitedActivities,     \* visitedActivities[c]: the Set of agent3.ts:322
    events,                \* events[c]: the event log (agent3.ts:306)
    resourceUtilization,   \* resourceUtilization[c] (agent3.ts:307)
    metrics,               \* metrics[c]: result of calculatePerformanceMetrics
    error,                 \* error[c]: the exception that ended call c, if any
    lastDraws,             \* lastDraws[c]: the values Math.random() returned
                           \* in the step call c just took (<<>> if none)
    enqueued,              \* enqueued[c]: how many items the simulateCase in
                           \* progress has put into its queue (0 if none is)
    \* the scenario loops of the exported simulateProcess (agent3.ts:905-944)
    \* and of analyzeAndOptimize (agent3.ts:692-717)
    entry,                 \* which of the two functions was called
    scenarios,             \* the Scenario[] the loop runs over
    simulationResults,     \* the array the loop pushes to
    response,              \* what the function returned or threw, if it did
    \* withRetry (agent3.ts:1096-1120)
    maxRetries,            \* the parameter maxRetries
    attempt,               \* the for-loop variable
    lastError,             \* the variable lastError
    retryPc,               \* position in withRetry
    invocations,           \* outcomes of the invocations of fn so far
    sleeps,                \* the delays slept so far, in ms
    outcome,               \* what withRetry returned or threw, if it did
    \* the upload handlers (part_001:105-200, server.ts:85-178), per request
    route,                 \* route[q]: the endpoint of request q
    reqFile,               \* reqFile[q]: req.file.path, if multer stored a file
    handlerPc,             \* handlerPc[q]: position of the handler
    uploads,               \* the paths that exist in uploads/
    analysisResult,        \* analysisResult[q]: the awaited analysis result
    bpmnCalls,             \* bpmnCalls[q]: invocations of generateBPMN so far
    responses              \* responses[q]: the status codes sent, in order

simVars == <<processStructure, scenario, numInstances, pc, modifiedActivities,
             caseId, queue, visitedActivities, events, resourceUtilization,
             metrics, error, lastDraws, enqueued>>

apiVars == <<entry, scenarios, simulationResults, response>>

retryVars == <<maxRetries, attempt, lastError, retryPc, invocations, sleeps,
               outcome>>

uploadVars == <<route, reqFile, handlerPc, uploads, analysisResult, bpmnCalls,
                responses>>

vars == <<simVars, apiVars, retryVars, uploadVars>>

----------------------------------------------------------------------------
(* Bounds of the model                                                     *)

MaxInstances == 2

MaxFlows == 3

MaxLogLen == 3

MaxRetryBound == 3

MaxDeterministicInstances == 10

Calls == {1, 2}

(* Values Math.random() takes, in hundredths                               *)
Draws == {0, 50}

----------------------------------------------------------------------------
(* JavaScript values                                                       *)

None == <<>>

Some(v) == <<v>>

(* Truthiness of a number (0 is falsy) and of a string ("" is falsy)       *)
TruthyNumber(n) == n # 0

TruthyString(s) == s # ""

(* an optional number / string: absent is falsy too                        *)
TruthyOptNumber(o) == o # None /\ TruthyNumber(o[1])

TruthyOptString(o) == o # None /\ TruthyString(o[1])

(* F(x) and F(x, y) with the arguments evaluated once, however often F     *)
(* uses them                                                               *)
With(x, F(_)) == CHOOSE r \in { F(v) : v \in {x} } : TRUE

With2(x, y, F(_, _)) == CHOOSE r \in { F(u, v) : u \in {x}, v \in {y} } : TRUE

(* the array of f[1], ..., f[n], every element computed once               *)
ArrayOf(f) == <<>> \o f

(* the function f, every value computed once                               *)
Computed(f) == f @@ <<>>

StartTime == 0

MsPerMinute == 60000

----------------------------------------------------------------------------
(* Input data: activities, flows, resources, scenarios                     *)

Activity(id, name, type, performer, min, max, cost, res) ==
    [id |-> id, name |-> name, type |-> type, performer |-> performer,
     duration |-> [min |-> min, max |-> max, unit |-> "minutes"],
     cost |-> cost, resources |-> res, probability |-> 100]

A1 == Activity("A1", "Review", "task", "Clerk", 10, 10, 5, 1)

A2 == Activity("A2", "Approve", "approval", "Manager", 5, 5, 3, 1)

A3 == Activity("A3", "Archive", "parallel", "Robot", 2, 5, 0, 2)

ActivityLists == { <<>>, <<A1>>, <<A1, A2>>, <<A1, A2, A3>> }

Flow(from, to, condition, probability) ==
    [from |-> from, to |-> to, condition |-> condition,
     probability |-> probability]

FlowUniverse ==
    << Flow("A1", "A2", None, Some(50)),
       Flow("A1", "A2", Some("ok"), Some(50)),
       Flow("A1", "A3", Some("big"), None),
       Flow("A2", "A3", None, Some(100)),
       Flow("A2", "A2", Some("again"), Some(50)),
       Flow("A2", "A1", Some(""), Some(50)),
       Flow("A1", "A2", None, Some(100)) >>

SetMin(S) == CHOOSE x \in S : \A y \in S : x <= y

RECURSIVE PickFlows(_)
PickFlows(S) ==
    IF S = {} THEN <<>>
    ELSE <<FlowUniverse[SetMin(S)]>> \o PickFlows(S \ {SetMin(S)})

(* flow lists: the flows of FlowUniverse at up to MaxFlows chosen places   *)
FlowLists ==
    { PickFlows(S) : S \in { T \in SUBSET (1..Len(FlowUniverse)) :
                                 Cardinality(T) <= MaxFlows } }

Resource(role, capacity, costPerHour) ==
    [role |-> role, capacity |-> capacity, costPerHour |-> costPerHour]

DeclaredResources == << Resource("Clerk", 2, 20), Resource("Manager", 1, 50) >>

Modification(id, duration, cost, res) ==
    [id |-> id, duration |-> duration, cost |-> cost, resources |-> res]

Opt(S) == {None} \cup { Some(x) : x \in S }

WhatIf(name, activities, resources) ==
    [scenarioName |-> name,
     modifications |-> Some([activities |-> activities,
                             resources |-> resources])]

SlowReview ==
    << Modification("A1", Some([min |-> 20, max |-> 20, unit |-> "minutes"]),
                    Some(7), None) >>

FreeApproval ==
    << Modification("A2", None, Some(0), Some(3)),
       Modification("A9", None, Some(9), Some(4)),
       Modification("A2", None, Some(8), None) >>

MoreClerks == << Resource("Clerk", 5, 20), Resource("Robot", 3, 1) >>

ResourceOverrides == { MoreClerks }

Scenarios ==
    { [scenarioName |-> "Baseline", modifications |-> None],
      WhatIf("Slow review", Some(SlowReview), None),
      WhatIf("Free approval", Some(FreeApproval), Some(MoreClerks)),
      WhatIf("More clerks", None, Some(MoreClerks)) }

----------------------------------------------------------------------------
(* applyScenarioModifications (agent3.ts:338-353)                          *)

(* Array.prototype.find: the first element satisfying the test, if any     *)
FindModification(mods, id) ==
    LET hits == { i \in 1..Len(mods) : mods[i].id = id }
    IN  IF hits = {} THEN None ELSE Some(mods[SetMin(hits)])

(* the record built at agent3.ts:344-349: a || b takes b when a is falsy   *)
ModifiedActivity(activity, mod) ==
    [activity EXCEPT
       !.duration  = IF mod.duration # None THEN mod.duration[1] ELSE @,
       !.cost      = IF TruthyOptNumber(mod.cost) THEN mod.cost[1] ELSE @,
       !.resources = IF TruthyOptNumber(mod.resources) THEN mod.resources[1]
                     ELSE @]

(* a variant that also adds an activity for every modification whose id    *)
(* no activity has                                                         *)
ApplyAndExtend(activities, modifications) ==
    IF modifications = None \/ activities = <<>> THEN activities
    ELSE LET mods == IF modifications[1].activities = None THEN <<>>
                     ELSE modifications[1].activities[1]
             unknown == { j \in 1..Len(mods) :
                            \A i \in 1..Len(activities) :
                                activities[i].id # mods[j].id }
         IN  [ i \in 1..Len(activities) |->
                 IF FindModification(mods, activities[i].id) # None
                 THEN ModifiedActivity(
                          activities[i],
                          FindModification(mods, activities[i].id)[1])
                 ELSE activities[i] ]
             \o [ k \in 1..Cardinality(unknown) |->
                    [activities[1] EXCEPT !.id = "new"] ]

ApplyScenarioModifications(activities, modifications) ==
    IF modifications = None THEN activities
    ELSE [ i \in 1..Len(activities) |->
             LET mod == IF modifications[1].activities = None THEN None
                        ELSE FindModification(modifications[1].activities[1],
                                              activities[i].id)
             IN  IF mod # None THEN ModifiedActivity(activities[i], mod[1])
                 ELSE activities[i] ]

----------------------------------------------------------------------------
(* Natural numbers of any size, which the significands of the JavaScript   *)
(* numbers below and their sums, products and quotients are: the sequence  *)
(* of the digits in base 2^15, lowest digit first, without a highest digit *)
(* 0 (<<>> is 0).                                                          *)

Base == 32768

DigitBits == 15

(* 2^0, 2^1, ..., 2^15                                                     *)
PowersOfTwo ==
    <<1, 2, 4, 8, 16, 32, 64, 128, 256, 512, 1024, 2048, 4096, 8192, 16384,
      32768>>

(* 2^k for k <= DigitBits                                                  *)
TwoTo(k) == PowersOfTwo[k + 1]

RECURSIVE BigOf(_)
BigOf(n) == IF n = 0 THEN <<>> ELSE <<n % Base>> \o BigOf(n \div Base)

RECURSIVE IntOfFrom(_, _)
IntOfFrom(a, i) == IF i > Len(a) THEN 0 ELSE a[i] + Base * IntOfFrom(a, i + 1)

IntOf(a) == IntOfFrom(a, 1)

(* a without its highest digits 0                                          *)
BigTrim(a) ==
    With(a, LAMBDA v :
        IF v = <<>> \/ v[Len(v)] # 0 THEN v
        ELSE SubSeq(v, 1, CHOOSE n \in 0..Len(v) :
                             /\ n = 0 \/ v[n] # 0
                             /\ \A j \in (n + 1)..Len(v) : v[j] = 0))

(* the digit of a at place i, 0 beyond its digits                          *)
Digit(a, i) == IF 1 <= i /\ i <= Len(a) THEN a[i] ELSE 0

RECURSIVE BigAddFrom(_, _, _, _)
BigAddFrom(a, b, i, carry) ==
    IF i > Len(a) /\ i > Len(b) THEN (IF carry = 0 THEN <<>> ELSE <<carry>>)
    ELSE <<(Digit(a, i) + Digit(b, i) + carry) % Base>>
         \o BigAddFrom(a, b, i + 1,
                       (Digit(a, i) + Digit(b, i) + carry) \div Base)

BigAdd(a, b) == BigAddFrom(a, b, 1, 0)

(* a - b for a >= b                                                        *)
RECURSIVE BigSubFrom(_, _, _, _)
BigSubFrom(a, b, i, borrow) ==
    IF i > Len(a) THEN <<>>
    ELSE <<(a[i] - Digit(b, i) - borrow + Base) % Base>>
         \o BigSubFrom(a, b, i + 1,
                       IF a[i] - Digit(b, i) - borrow < 0 THEN 1 ELSE 0)

BigSub(a, b) == BigTrim(BigSubFrom(a, b, 1, 0))

BigLess(a, b) ==
    IF Len(a) # Len(b) THEN Len(a) < Len(b)
    ELSE \E i \in 1..Len(a) :
            /\ a[i] < b[i]
            /\ \A j \in (i + 1)..Len(a) : a[j] = b[j]

(* a * d for a digit d                                                     *)
RECURSIVE BigScaleFrom(_, _, _, _)
BigScaleFrom(a, d, i, carry) ==
    IF i > Len(a) THEN (IF carry = 0 THEN <<>> ELSE <<carry>>)
    ELSE <<(a[i] * d + carry) % Base>>
         \o BigScaleFrom(a, d, i + 1, (a[i] * d + carry) \div Base)

RECURSIVE BigMulFrom(_, _, _)
BigMulFrom(a, b, j) ==
    IF j > Len(b) THEN <<>>
    ELSE With2(BigScaleFrom(a, b[j], 1, 0), <<0>> \o BigMulFrom(a, b, j + 1),
               LAMBDA low, high : BigAdd(low, high))

BigMul(a, b) == BigTrim(BigMulFrom(a, b, 1))

(* a * 2^(DigitBits * w + t) for t < DigitBits: every digit is moved up w  *)
(* places and takes the high binary digits of the digit below it           *)
ShiftedUp(a, w, t) ==
    [ i \in 1..(Len(a) + w + 1) |->
        ((Digit(a, i - w) * TwoTo(t)) % Base)
        + ((Digit(a, i - w - 1) * TwoTo(t)) \div Base) ]

(* a * 2^k                                                                 *)
BigShl(a, k) ==
    IF k = 0 \/ a = <<>> THEN a
    ELSE IF k % DigitBits = 0 THEN [ i \in 1..(k \div DigitBits) |-> 0 ] \o a
    ELSE BigTrim(ShiftedUp(a, k \div DigitBits, k % DigitBits))

(* the integer part of a / 2^(DigitBits * w + t) for t < DigitBits: every  *)
(* digit is moved down w places and takes the low binary digits of the     *)
(* digit above it                                                          *)
ShiftedDown(a, w, t) ==
    [ i \in 1..(Len(a) - w) |->
        (Digit(a, i + w) \div TwoTo(t))
        + ((Digit(a, i + w + 1) % TwoTo(t)) * TwoTo(DigitBits - t)) ]

(* the integer part of a / 2^k                                             *)
BigShr(a, k) ==
    IF k = 0 THEN a
    ELSE IF k % DigitBits = 0 THEN SubSeq(a, k \div DigitBits + 1, Len(a))
    ELSE BigTrim(ShiftedDown(a, k \div DigitBits, k % DigitBits))

(* quotient and remainder of a by a digit d, from the highest digit of a   *)
(* down: rem is the remainder and q the quotient of the digits above i     *)
RECURSIVE BigDivDigitFrom(_, _, _, _, _)
BigDivDigitFrom(a, d, i, rem, q) ==
    IF i = 0 THEN [q |-> BigTrim(q), r |-> rem]
    ELSE BigDivDigitFrom(a, d, i - 1, (rem * Base + a[i]) % d,
                         <<(rem * Base + a[i]) \div d>> \o q)

BigDivDigit(a, d) == BigDivDigitFrom(a, d, Len(a), 0, <<>>)

(* number of binary digits of a digit d # 0: the n with                    *)
(* 2^(n - 1) <= d < 2^n, looked for between lo and hi by halving           *)
RECURSIVE DigitLen(_, _, _)
DigitLen(d, lo, hi) ==
    IF lo = hi THEN lo
    ELSE IF d < TwoTo((lo + hi) \div 2)
    THEN DigitLen(d, lo, (lo + hi) \div 2)
    ELSE DigitLen(d, (lo + hi) \div 2 + 1, hi)

(* number of binary digits of a                                            *)
BitLen(a) ==
    IF a = <<>> THEN 0
    ELSE DigitBits * (Len(a) - 1) + DigitLen(a[Len(a)], 1, DigitBits)

(* number of binary digits 0 at the low end of a digit d # 0               *)
RECURSIVE DigitLowZeros(_)
DigitLowZeros(d) == IF d % 2 = 1 THEN 0 ELSE 1 + DigitLowZeros(d \div 2)

(* number of binary digits 0 at the low end of a # 0                       *)
RECURSIVE LowZerosFrom(_, _)
LowZerosFrom(a, i) ==
    IF a[i] = 0 THEN DigitBits + LowZerosFrom(a, i + 1)
    ELSE DigitLowZeros(a[i])

LowZeros(a) == LowZerosFrom(a, 1)

(* quotient and remainder of r * 2^n by b, for r < b, one binary digit at  *)
(* a time: the digit is 1 when twice the remainder so far reaches b; q is  *)
(* the quotient so far                                                     *)
RECURSIVE BigDivBits(_, _, _, _)
BigDivBits(r, b, q, n) ==
    IF n = 0 THEN [q |-> q, r |-> r]
    ELSE With(BigAdd(r, r), LAMBDA twice :
             IF BigLess(twice, b)
             THEN BigDivBits(twice, b, 2 * q, n - 1)
             ELSE With(BigSub(twice, b), LAMBDA rest :
                      BigDivBits(rest, b, 2 * q + 1, n - 1)))

(* quotient and remainder of r * Base^n by b, for r < b, one digit at a    *)
(* time                                                                    *)
DivNext(sofar, b) ==
    With(sofar, LAMBDA upper :
    With(BigDivBits(upper.r, b, 0, DigitBits), LAMBDA next :
        [q |-> <<next.q>> \o upper.q, r |-> next.r]))

RECURSIVE BigLongDiv(_, _, _)
BigLongDiv(r, b, n) ==
    IF n = 0 THEN [q |-> <<>>, r |-> r]
    ELSE DivNext(BigLongDiv(r, b, n - 1), b)

----------------------------------------------------------------------------
(* JavaScript numbers: IEEE-754 double precision.  A finite number is      *)
(* s * m * 2^e with the sign s (1 or -1), an odd natural number m below    *)
(* 2^53 and an integer e; 0 has m = 0 and e = 0 (-0 is not told apart from *)
(* 0).  The result of every operation is rounded to the nearest such       *)
(* number, ties to the even one.  The exponent is not limited: the values  *)
(* of the metrics stay far from overflow and from the subnormal range.     *)

Precision == 53

Finite(s, m, e) == [k |-> "finite", s |-> s, m |-> m, e |-> e]

Zero == Finite(1, <<>>, 0)

NaN == [k |-> "NaN", s |-> 1, m |-> <<>>, e |-> 0]

PosInfinity == [k |-> "Infinity", s |-> 1, m |-> <<>>, e |-> 0]

NegInfinity == [k |-> "Infinity", s |-> -1, m |-> <<>>, e |-> 0]

IsFiniteNumber(x) == x.k = "finite"

(* s * a * 2^e for a of at most 53 binary digits, with m made odd          *)
Normal(s, a, e) ==
    With(a, LAMBDA v :
        IF v = <<>> THEN Zero
        ELSE IF v[1] % 2 = 1 THEN Finite(s, v, e)
        ELSE Finite(s, BigShr(v, LowZeros(v)), e + LowZeros(v)))

(* the binary digit of a at place k, the lowest place being 0              *)
BitAt(a, k) == (Digit(a, k \div DigitBits + 1) \div TwoTo(k % DigitBits)) % 2

(* a = q * 2^sh + rest, for a # 0 and sh >= 1, is rounded to q or to q + 1 *)
(* times 2^sh: up when rest is more than half of 2^sh, or is that half and *)
(* q is odd.  rest reaches the half when the digit of a at sh - 1 is 1,    *)
(* and is the half when all the digits below are 0                         *)
RoundUp(a, q, sh) ==
    /\ BitAt(a, sh - 1) = 1
    /\ LowZeros(a) < sh - 1 \/ q[1] % 2 = 1

RoundAt(s, a, e, sh) ==
    With(BigShr(a, sh), LAMBDA q :
        Normal(s, IF RoundUp(a, q, sh) THEN BigAdd(q, <<1>>) ELSE q, e + sh))

(* a has at most 53 binary digits: 3 digits and 8 binary digits            *)
Fits(a) ==
    \/ Len(a) <= Precision \div DigitBits
    \/ /\ Len(a) = Precision \div DigitBits + 1
       /\ a[Len(a)] < TwoTo(Precision % DigitBits)

(* the double nearest to s * a * 2^e, ties to even                         *)
Round(s, a, e) ==
    With(a, LAMBDA v :
        IF Fits(v) THEN Normal(s, v, e)
        ELSE RoundAt(s, v, e, BitLen(v) - Precision))

(* the number n of an integer n                                            *)
Num(n) == IF n < 0 THEN Normal(-1, BigOf(-n), 0) ELSE Normal(1, BigOf(n), 0)

AddAligned(sa, a, sb, b, e) ==
    With2(a, b, LAMBDA u, v :
        IF sa = sb THEN Round(sa, BigAdd(u, v), e)
        ELSE IF u = v THEN Zero
        ELSE IF BigLess(u, v) THEN Round(sb, BigSub(v, u), e)
        ELSE Round(sa, BigSub(u, v), e))

AddFinite(x, y, e) ==
    AddAligned(x.s, BigShl(x.m, x.e - e), y.s, BigShl(y.m, y.e - e), e)

(* x + y: NaN is contagious, Infinity + -Infinity is NaN                   *)
FAdd(x, y) ==
    With2(x, y, LAMBDA u, v :
        IF u.k = "NaN" \/ v.k = "NaN" THEN NaN
        ELSE IF u.k = "Infinity"
        THEN (IF v.k = "Infinity" /\ v.s # u.s THEN NaN ELSE u)
        ELSE IF v.k = "Infinity" THEN v
        ELSE IF u.m = <<>> THEN v
        ELSE IF v.m = <<>> THEN u
        ELSE AddFinite(u, v, IF u.e < v.e THEN u.e ELSE v.e))

(* x * y: 0 * Infinity is NaN                                              *)
FMul(x, y) ==
    With2(x, y, LAMBDA u, v :
        IF u.k = "NaN" \/ v.k = "NaN" THEN NaN
        ELSE IF u.k = "Infinity" \/ v.k = "Infinity"
        THEN (IF (u.k = "finite" /\ u.m = <<>>) \/ (v.k = "finite" /\ v.m = <<>>)
              THEN NaN
              ELSE IF u.s = v.s THEN PosInfinity ELSE NegInfinity)
        ELSE IF u.m = <<>> \/ v.m = <<>> THEN Zero
        ELSE Round(u.s * v.s, BigMul(u.m, v.m), u.e + v.e))

(* the double nearest to s * (q + f) * 2^e, where q is a quotient of 55    *)
(* binary digits or more and 0 <= f < 1 is what the division left, 0 or    *)
(* not: q is followed by a binary digit 1 when f # 0                       *)
Quotient(s, q, exact, e) ==
    Round(s, BigAddFrom(q, q, 1, IF exact THEN 0 ELSE 1), e - 1)

(* a / b * 2^e for b of one digit: a * 2^sh is divided by b, sh being such *)
(* that the quotient has 55 binary digits or one more                      *)
DivByDigit(s, a, b, e, sh) ==
    With(BigShl(a, sh), LAMBDA n :
    With(BigDivDigit(n, b[1]), LAMBDA div :
        Quotient(s, div.q, div.r = 0, e - sh)))

(* a / b * 2^e in general: a * 2^sa and b * 2^sb have 1/4 < a / b < 1, and *)
(* the quotient is taken to 4 digits, 58 binary digits or more             *)
QuotientDigits == 4

DivLong(s, a, b, e, sa, sb) ==
    With2(BigShl(a, sa), BigShl(b, sb), LAMBDA u, v :
    With(BigLongDiv(u, v, QuotientDigits), LAMBDA div :
        Quotient(s, BigTrim(div.q), div.r = <<>>,
                 e - sa + sb - QuotientDigits * DigitBits)))

(* a quotient that is a natural number is exact and needs no rounding     *)
DivFinite(s, a, b, e) ==
    IF Len(b) = 1
    THEN With(BigDivDigit(a, b[1]), LAMBDA div :
             IF div.r = 0 THEN Normal(s, div.q, e)
             ELSE DivByDigit(s, a, b, e,
                             Precision + 2 + BitLen(b) - BitLen(a)))
    ELSE IF BitLen(a) < BitLen(b)
    THEN DivLong(s, a, b, e, BitLen(b) - BitLen(a), 1)
    ELSE DivLong(s, a, b, e, 0, BitLen(a) - BitLen(b) + 1)

(* x / y: 0 / 0 and Infinity / Infinity are NaN, x / 0 is an Infinity      *)
FDiv(x, y) ==
    With2(x, y, LAMBDA u, v :
        IF u.k = "NaN" \/ v.k = "NaN" THEN NaN
        ELSE IF u.k = "Infinity"
        THEN (IF v.k = "Infinity" THEN NaN
              ELSE IF u.s = v.s THEN PosInfinity ELSE NegInfinity)
        ELSE IF v.k = "Infinity" THEN Zero
        ELSE IF v.m = <<>>
        THEN (IF u.m = <<>> THEN NaN
              ELSE IF u.s = 1 THEN PosInfinity ELSE NegInfinity)
        ELSE IF u.m = <<>> THEN Zero
        ELSE DivFinite(u.s * v.s, u.m, v.m, u.e - v.e))

(* n / d for integers n and d                                              *)
Frac(n, d) == FDiv(Num(n), Num(d))

(* |x| < |y| for finite x and y                                            *)
MagnitudeLess(x, y, e) ==
    IF x.e = y.e THEN BigLess(x.m, y.m)
    ELSE With2(BigShl(x.m, x.e - e), BigShl(y.m, y.e - e),
               LAMBDA u, v : BigLess(u, v))

(* x < y; a comparison with NaN is false                                   *)
FLess(x, y) ==
    With2(x, y, LAMBDA u, v :
        IF u.k = "NaN" \/ v.k = "NaN" THEN FALSE
        ELSE IF u.k = "Infinity" THEN u.s = -1 /\ v # u
        ELSE IF v.k = "Infinity" THEN v.s = 1
        ELSE IF u.s # v.s THEN u.s = -1 /\ (u.m # <<>> \/ v.m # <<>>)
        ELSE IF u.s = 1
        THEN MagnitudeLess(u, v, IF u.e < v.e THEN u.e ELSE v.e)
        ELSE MagnitudeLess(v, u, IF u.e < v.e THEN u.e ELSE v.e))

(* the integer part of |x| for a finite x                                  *)
WholePart(x) ==
    With(x, LAMBDA v :
        IF v.e >= 0 THEN BigShl(v.m, v.e) ELSE BigShr(v.m, -v.e))

(* arr.reduce((a, b) => a + b, 0): the elements are added one by one, from *)
(* the first, to the sum so far, which starts at 0                         *)
RECURSIVE FSumTo(_, _)
FSumTo(arr, n) == IF n = 0 THEN Zero ELSE FAdd(FSumTo(arr, n - 1), arr[n])

FSum(arr) == With(arr, LAMBDA v : FSumTo(v, Len(v)))

(* Math.min(...arr) and Math.max(...arr): Infinity and -Infinity on []     *)
MathMin(arr) ==
    IF arr = <<>> THEN PosInfinity
    ELSE arr[CHOOSE i \in 1..Len(arr) :
                 \A j \in 1..Len(arr) : ~ FLess(arr[j], arr[i])]

MathMax(arr) ==
    IF arr = <<>> THEN NegInfinity
    ELSE arr[CHOOSE i \in 1..Len(arr) :
                 \A j \in 1..Len(arr) : ~ FLess(arr[i], arr[j])]

(* arr.sort((a, b) => a - b): insertion of the last element into the       *)
(* sorted rest, after the elements that are not greater (stable)           *)
RECURSIVE SortNumbers(_)
SortNumbers(arr) ==
    IF arr = <<>> THEN <<>>
    ELSE LET rest == SortNumbers(SubSeq(arr, 1, Len(arr) - 1))
             x    == arr[Len(arr)]
             k    == Cardinality({ i \in 1..Len(rest) : ~ FLess(x, rest[i]) })
         IN  SubSeq(rest, 1, k) \o <<x>> \o SubSeq(rest, k + 1, Len(rest))

(* median (agent3.ts:509-513); an index outside the array reads undefined, *)
(* and undefined + undefined is NaN                                        *)
Median(arr) ==
    LET sorted == SortNumbers(arr)
        mid    == Len(sorted) \div 2
        At(i)  == IF i \in 1..Len(sorted) THEN sorted[i] ELSE NaN
    IN  IF Len(sorted) % 2 = 1 THEN At(mid + 1)
        ELSE FDiv(FAdd(At(mid), At(mid + 1)), Num(2))

----------------------------------------------------------------------------
(* simulateCase (agent3.ts:355-412) and randomBetween (414-416)            *)

(* a variant that scales the draw by max instead of max - min              *)
RandomBetweenScaled(min, max, r) ==
    FAdd(Num(min), FMul(Frac(r, 100), Num(max)))

(* min + Math.random() * (max - min), r / 100 being the value of           *)
(* Math.random(): a number of minutes that need not be whole               *)
RandomBetween(min, max, r) ==
    FAdd(Num(min), FMul(Frac(r, 100), Num(max - min)))

(* duration * 60000 (agent3.ts:383)                                        *)
DurationMs(duration) == FMul(duration, Num(MsPerMinute))

(* new Date(2024, 0, 1, 8, 0, 0).getTime(), 1704096000000 in UTC; another  *)
(* time zone shifts it by quarters of an hour, which changes no rounding   *)
EpochMs == <<26624, 2066, 1587>>

(* time.getTime() of a timestamp, which the model counts from the start    *)
GetTime(time) == Normal(1, BigAdd(EpochMs, BigOf(time)), 0)

(* the timestamp of new Date(ms): a Date keeps the integer part of the     *)
(* milliseconds it is given                                                *)
NewDate(ms) ==
    With(WholePart(ms), LAMBDA whole :
        IF BigLess(whole, EpochMs) THEN - IntOf(BigSub(EpochMs, whole))
        ELSE IntOf(BigSub(whole, EpochMs)))

(* new Date(time.getTime() + duration * 60000)                             *)
EndTime(time, duration) == NewDate(FAdd(GetTime(time), DurationMs(duration)))

FindActivity(activities, id) ==
    LET hits == { i \in 1..Len(activities) : activities[i].id = id }
    IN  IF hits = {} THEN None ELSE Some(activities[SetMin(hits)])

StartEvent(cid, activity, time) ==
    [caseId |-> cid, activity |-> activity.name, activityId |-> activity.id,
     event |-> "start", timestamp |-> time, resource |-> activity.performer,
     cost |-> 0, duration |-> None]

(* a variant whose 'complete' event carries cost 0 like the 'start' event  *)
EndEventWithoutCost(cid, activity, endTime, duration) ==
    [caseId |-> cid, activity |-> activity.name, activityId |-> activity.id,
     event |-> "complete", timestamp |-> endTime,
     resource |-> activity.performer,
     cost |-> 0,
     duration |-> Some(duration)]

EndEvent(cid, activity, endTime, duration) ==
    [caseId |-> cid, activity |-> activity.name, activityId |-> activity.id,
     event |-> "complete", timestamp |-> endTime,
     resource |-> activity.performer,
     cost |-> IF TruthyNumber(activity.cost) THEN activity.cost ELSE 0,
     duration |-> Some(duration)]

(* flows.filter(f => f.from === activityId): places of the outgoing flows  *)
NextFlows(flows, activityId) ==
    { i \in 1..Len(flows) : flows[i].from = activityId }

(* Math.random() is called only for a flow whose condition is truthy       *)
NeedsDraw(flow) == TruthyOptString(flow.condition)

(* flow.probability || 1.0, in hundredths                                  *)
EffectiveProbability(flow) ==
    IF TruthyOptNumber(flow.probability) THEN flow.probability[1] ELSE 100

(* a variant that evaluates the label: "ok" is taken as a condition that   *)
(* holds                                                                   *)
FlowFiresEvaluatesLabel(flow, r) ==
    \/ ~ TruthyOptString(flow.condition)
    \/ flow.condition = Some("ok")
    \/ r < EffectiveProbability(flow)

(* a variant that compares with <= instead of <                            *)
FlowFiresInclusive(flow, r) ==
    (~ TruthyOptString(flow.condition)) \/ r <= EffectiveProbability(flow)

(* the test of agent3.ts:407, r being the value Math.random() returned     *)
FlowFires(flow, r) ==
    (~ TruthyOptString(flow.condition)) \/ r < EffectiveProbability(flow)

(* how many of the flows at places < i of the outgoing flows draw          *)
DrawsBefore(flows, out, i) ==
    Cardinality({ j \in out : j < i /\ NeedsDraw(flows[j]) })

(* a variant that pushes two items for every flow that fires               *)
RECURSIVE PushedTwice(_, _, _, _, _)
PushedTwice(flows, out, todo, dr, endTime) ==
    IF todo = {} THEN <<>>
    ELSE LET i == SetMin(todo)
             r == IF NeedsDraw(flows[i])
                  THEN dr[2 + DrawsBefore(flows, out, i)] ELSE 0
         IN  (IF FlowFires(flows[i], r)
              THEN << [activityId |-> flows[i].to, time |-> endTime],
                      [activityId |-> flows[i].to, time |-> endTime] >>
              ELSE <<>>)
             \o PushedTwice(flows, out, todo \ {i}, dr, endTime)

(* the items pushed by the loop of agent3.ts:406-410, in flow-list order;  *)
(* dr[1] is the duration's draw, dr[2..] the draws of the flows that draw  *)
RECURSIVE Pushed(_, _, _, _, _)
Pushed(flows, out, todo, dr, endTime) ==
    IF todo = {} THEN <<>>
    ELSE LET i == SetMin(todo)
             r == IF NeedsDraw(flows[i])
                  THEN dr[2 + DrawsBefore(flows, out, i)] ELSE 0
         IN  (IF FlowFires(flows[i], r)
              THEN << [activityId |-> flows[i].to, time |-> endTime] >>
              ELSE <<>>)
             \o Pushed(flows, out, todo \ {i}, dr, endTime)

(* number of Math.random() calls of one loop iteration that executes id    *)
DrawCount(flows, activityId) ==
    1 + Cardinality({ i \in NextFlows(flows, activityId) : NeedsDraw(flows[i]) })

DrawSeqs(n) == [1..n -> Draws]

----------------------------------------------------------------------------
(* calculateWaitingTimes (agent3.ts:484-507)                               *)

(* events.sort((a, b) => a.timestamp - b.timestamp): stable, in place      *)
RECURSIVE SortByTimestamp(_)
SortByTimestamp(evs) ==
    IF evs = <<>> THEN <<>>
    ELSE LET rest == SortByTimestamp(SubSeq(evs, 1, Len(evs) - 1))
             e    == evs[Len(evs)]
             k    == Cardinality({ i \in 1..Len(rest) :
                                     rest[i].timestamp <= e.timestamp })
         IN  SubSeq(rest, 1, k) \o <<e>> \o SubSeq(rest, k + 1, Len(rest))

(* a variant that measures from the first 'complete' event of the case     *)
(* instead of the latest one before the 'start' event                      *)
WaitSamplesFromFirstEnd(sorted) ==
    LET LastEnd(i) ==
            { j \in 1..(i - 1) : /\ sorted[j].event = "complete"
                                 /\ sorted[j].caseId = sorted[i].caseId }
    IN  [ i \in { k \in 1..Len(sorted) :
                    sorted[k].event = "start" /\ LastEnd(k) # {} } |->
            [activity |-> sorted[i].activity,
             wait |-> sorted[i].timestamp
                      - sorted[SetMin(LastEnd(i))].timestamp] ]

(* the samples pushed by the forEach of agent3.ts:490-499 on sorted[1..n]: *)
(* a 'start' event whose case has a 'complete' event before it contributes *)
(* its distance, in ms, to the latest such event                           *)
WaitSamples(sorted) ==
    LET LastEnd(i) ==
            { j \in 1..(i - 1) : /\ sorted[j].event = "complete"
                                 /\ sorted[j].caseId = sorted[i].caseId }
        Max(S) == CHOOSE x \in S : \A y \in S : y <= x
    IN  [ i \in { k \in 1..Len(sorted) :
                    sorted[k].event = "start" /\ LastEnd(k) # {} } |->
            [activity |-> sorted[i].activity,
             wait |-> sorted[i].timestamp - sorted[Max(LastEnd(i))].timestamp] ]

(* waiting[activity]: the waits of the samples S, in minutes, in the order *)
(* they were pushed                                                        *)
RECURSIVE WaitsInMinutes(_, _)
WaitsInMinutes(samples, S) ==
    IF S = {} THEN <<>>
    ELSE <<Frac(samples[SetMin(S)].wait, MsPerMinute)>>
         \o WaitsInMinutes(samples, S \ {SetMin(S)})

MeanOf(times) == FDiv(FSum(times), Num(Len(times)))

(* avgWaiting: per activity name, the mean of its samples in minutes       *)
CalculateWaitingTimes(evs) ==
    LET samples == WaitSamples(SortByTimestamp(evs))
        names   == { samples[i].activity : i \in DOMAIN samples }
        Of(a)   == { i \in DOMAIN samples : samples[i].activity = a }
    IN  [ a \in names |-> MeanOf(WaitsInMinutes(samples, Of(a))) ]

----------------------------------------------------------------------------
(* calculatePerformanceMetrics (agent3.ts:419-482)                         *)

CaseIds(evs) == { evs[i].caseId : i \in 1..Len(evs) }

(* the record cases[id] after the forEach of agent3.ts:422-438             *)
CaseRecord(evs, id) ==
    LET starts == { i \in 1..Len(evs) :
                      evs[i].caseId = id /\ evs[i].event = "start" }
        ends   == { i \in 1..Len(evs) :
                      evs[i].caseId = id /\ evs[i].event = "complete" }
        Max(S) == CHOOSE x \in S : \A y \in S : y <= x
        RECURSIVE Cost(_)
        Cost(S) == IF S = {} THEN 0
                   ELSE evs[SetMin(S)].cost + Cost(S \ {SetMin(S)})
    IN  [start |-> IF starts = {} THEN None
                   ELSE Some(evs[SetMin(starts)].timestamp),
         end   |-> IF ends = {} THEN None
                   ELSE Some(evs[Max(ends)].timestamp),
         cost  |-> Cost(ends)]

(* the ids of the cases with c.start && c.end, ascending as Object.values  *)
(* lists integer keys                                                      *)
RECURSIVE Ascending(_)
Ascending(S) ==
    IF S = {} THEN <<>> ELSE <<SetMin(S)>> \o Ascending(S \ {SetMin(S)})

CompletedCases(evs) ==
    Ascending({ id \in CaseIds(evs) :
                  CaseRecord(evs, id).start # None /\
                  CaseRecord(evs, id).end # None })

(* a variant that divides by 1000 * 60 only: minutes instead of hours      *)
ThroughputTimesInMinutes(evs) ==
    LET ids == CompletedCases(evs)
    IN  ArrayOf([ k \in 1..Len(ids) |->
            Frac(CaseRecord(evs, ids[k]).end[1] - CaseRecord(evs, ids[k]).start[1],
                 MsPerMinute) ])

(* (c.end - c.start) / (1000 * 60 * 60) of the cases with c.start && c.end *)
ThroughputTimes(evs) ==
    LET ids == CompletedCases(evs)
    IN  ArrayOf([ k \in 1..Len(ids) |->
            Frac(CaseRecord(evs, ids[k]).end[1] - CaseRecord(evs, ids[k]).start[1],
                 60 * MsPerMinute) ])

Costs(evs) ==
    LET ids == CompletedCases(evs)
    IN  ArrayOf([ k \in 1..Len(ids) |-> Num(CaseRecord(evs, ids[k]).cost) ])

(* Object.keys(cases).length                                               *)
CasesCounted(evs) == Cardinality(CaseIds(evs))

(* 8 * 60 * Object.keys(cases).length / 5                                  *)
TotalSimTime(evs) == Frac(8 * 60 * CasesCounted(evs), 5)

Capacity(resources, role) ==
    LET hits == { i \in 1..Len(resources) : resources[i].role = role }
    IN  IF hits = {} THEN 1 ELSE resources[SetMin(hits)].capacity

Utilization(evs, resourceUtil, ps) ==
    [ role \in DOMAIN resourceUtil |->
        FMul(FDiv(resourceUtil[role].total,
                  FMul(TotalSimTime(evs), Num(Capacity(ps.resources, role)))),
             Num(100)) ]

CalculatePerformanceMetrics(evs, resourceUtil, ps) ==
    LET throughputTimes == ThroughputTimes(evs)
        costs           == Costs(evs)
    IN  [throughput |->
            [avg    |-> FDiv(FSum(throughputTimes), Num(Len(throughputTimes))),
             min    |-> MathMin(throughputTimes),
             max    |-> MathMax(throughputTimes),
             median |-> Median(throughputTimes)],
         cost |->
            [avg   |-> FDiv(FSum(costs), Num(Len(costs))),
             total |-> FSum(costs)],
         waitingTime    |-> CalculateWaitingTimes(evs),
         utilization    |-> Utilization(evs, resourceUtil, ps),
         casesCompleted |-> CasesCounted(evs)]

----------------------------------------------------------------------------
(* simulateProcess (agent3.ts:303-336).  Every action takes the set C of   *)
(* calls that take the step together: one call alone, or two calls fed the *)
(* same values of Math.random().                                           *)

(* f with f[c] replaced by New(c) for the calls c of C                     *)
Upd(f, C, New(_)) == [ c \in Calls |-> IF c \in C THEN New(c) ELSE f[c] ]

(* the forEach of agent3.ts:310-312                                        *)
InitResourceUtilization(resources) ==
    [ role \in { resources[i].role : i \in 1..Len(resources) } |->
        [busy |-> 0, total |-> Num(0), waiting |-> <<>>] ]

(* a variant that builds the accumulator from the scenario's resource      *)
(* overrides when it has some                                              *)
AccumulatorFromScenario(c) ==
    IF scenario[c].modifications # None
       /\ scenario[c].modifications[1].resources # None
    THEN scenario[c].modifications[1].resources[1]
    ELSE processStructure.resources

(* the resources whose roles the call's accumulator is built from          *)
(* (agent3.ts:310: processStructure.resources)                             *)
AccumulatorResources(c) == processStructure.resources

(* a variant that applies the overrides to the caller's activity records   *)
(* in place instead of building new ones                                   *)
StartSimulationInPlace(C) ==
    /\ \A c \in C : pc[c] = "idle"
    /\ events' = Upd(events, C, LAMBDA c : <<>>)
    /\ resourceUtilization' =
         Upd(resourceUtilization, C,
             LAMBDA c : InitResourceUtilization(AccumulatorResources(c)))
    /\ modifiedActivities' =
         Upd(modifiedActivities, C,
             LAMBDA c : ApplyScenarioModifications(
                            processStructure.activities,
                            scenario[c].modifications))
    /\ \E c \in C :
         processStructure' =
           [processStructure EXCEPT
              !.activities = ApplyScenarioModifications(
                                 processStructure.activities,
                                 scenario[c].modifications)]
    /\ caseId' = Upd(caseId, C, LAMBDA c : 1)
    /\ pc' = Upd(pc, C, LAMBDA c : "loop")
    /\ lastDraws' = Upd(lastDraws, C, LAMBDA c : <<>>)
    /\ UNCHANGED <<enqueued, apiVars, retryVars, uploadVars>>
    /\ UNCHANGED <<scenario, numInstances, queue,
                   visitedActivities, metrics, error>>

(* agent3.ts:306-318: the locals of the call, up to the for loop           *)
StartSimulation(C) ==
    /\ \A c \in C : pc[c] = "idle"
    /\ events' = Upd(events, C, LAMBDA c : <<>>)
    /\ resourceUtilization' =
         Upd(resourceUtilization, C,
             LAMBDA c : InitResourceUtilization(AccumulatorResources(c)))
    /\ modifiedActivities' =
         Upd(modifiedActivities, C,
             LAMBDA c : ApplyScenarioModifications(
                            processStructure.activities,
                            scenario[c].modifications))
    /\ caseId' = Upd(caseId, C, LAMBDA c : 1)
    /\ pc' = Upd(pc, C, LAMBDA c : "loop")
    /\ lastDraws' = Upd(lastDraws, C, LAMBDA c : <<>>)
    /\ UNCHANGED <<enqueued, apiVars, retryVars, uploadVars>>
    /\ UNCHANGED <<processStructure, scenario, numInstances, queue,
                   visitedActivities, metrics, error>>

(* a variant in which every case starts one minute after the case before   *)
(* it                                                                      *)
BeginCaseStaggered(C) ==
    /\ \A c \in C : /\ pc[c] = "loop"
                    /\ caseId[c] <= numInstances[c]
                    /\ Len(modifiedActivities[c]) > 0
    /\ visitedActivities' = Upd(visitedActivities, C, LAMBDA c : {})
    /\ queue' = Upd(queue, C,
                    LAMBDA c : << [activityId |-> modifiedActivities[c][1].id,
                                   time |-> StartTime
                                            + (caseId[c] - 1) * MsPerMinute] >>)
    /\ pc' = Upd(pc, C, LAMBDA c : "case")
    /\ lastDraws' = Upd(lastDraws, C, LAMBDA c : <<>>)
    /\ enqueued' = Upd(enqueued, C, LAMBDA c : 1)
    /\ UNCHANGED <<apiVars, retryVars, uploadVars>>
    /\ UNCHANGED <<processStructure, scenario, numInstances,
                   modifiedActivities, caseId, events, resourceUtilization,
                   metrics, error>>

(* agent3.ts:320-324 and 356: a loop iteration seeds the queue of its case *)
BeginCase(C) ==
    /\ \A c \in C : /\ pc[c] = "loop"
                    /\ caseId[c] <= numInstances[c]
                    /\ Len(modifiedActivities[c]) > 0
    /\ visitedActivities' = Upd(visitedActivities, C, LAMBDA c : {})
    /\ queue' = Upd(queue, C,
                    LAMBDA c : << [activityId |-> modifiedActivities[c][1].id,
                                   time |-> StartTime] >>)
    /\ pc' = Upd(pc, C, LAMBDA c : "case")
    /\ lastDraws' = Upd(lastDraws, C, LAMBDA c : <<>>)
    /\ enqueued' = Upd(enqueued, C, LAMBDA c : 1)
    /\ UNCHANGED <<apiVars, retryVars, uploadVars>>
    /\ UNCHANGED <<processStructure, scenario, numInstances,
                   modifiedActivities, caseId, events, resourceUtilization,
                   metrics, error>>

(* agent3.ts:356 on an empty list: activities[0] is undefined, and reading *)
(* its id throws a TypeError that rejects the call                         *)
BeginCaseThrows(C) ==
    /\ \A c \in C : /\ pc[c] = "loop"
                    /\ caseId[c] <= numInstances[c]
                    /\ Len(modifiedActivities[c]) = 0
    /\ visitedActivities' = Upd(visitedActivities, C, LAMBDA c : {})
    /\ error' = Upd(error, C, LAMBDA c : "TypeError")
    /\ pc' = Upd(pc, C, LAMBDA c : "failed")
    /\ lastDraws' = Upd(lastDraws, C, LAMBDA c : <<>>)
    /\ UNCHANGED <<enqueued, apiVars, retryVars, uploadVars>>
    /\ UNCHANGED <<processStructure, scenario, numInstances,
                   modifiedActivities, caseId, queue, events,
                   resourceUtilization, metrics>>

HeadItem(c) == queue[c][1]

(* a variant that puts the item of a visited activity back at the tail     *)
SkipVisitedRequeues(C) ==
    /\ \A c \in C : /\ pc[c] = "case"
                    /\ queue[c] # <<>>
                    /\ HeadItem(c).activityId \in visitedActivities[c]
    /\ queue' = Upd(queue, C, LAMBDA c : Tail(queue[c]) \o <<HeadItem(c)>>)
    /\ lastDraws' = Upd(lastDraws, C, LAMBDA c : <<>>)
    /\ UNCHANGED <<enqueued, apiVars, retryVars, uploadVars>>
    /\ UNCHANGED <<processStructure, scenario, numInstances, pc,
                   modifiedActivities, caseId, visitedActivities, events,
                   resourceUtilization, metrics, error>>

(* agent3.ts:359-361: the dequeued activity was visited, the item is       *)
(* discarded                                                               *)
SkipVisited(C) ==
    /\ \A c \in C : /\ pc[c] = "case"
                    /\ queue[c] # <<>>
                    /\ HeadItem(c).activityId \in visitedActivities[c]
    /\ queue' = Upd(queue, C, LAMBDA c : Tail(queue[c]))
    /\ lastDraws' = Upd(lastDraws, C, LAMBDA c : <<>>)
    /\ UNCHANGED <<enqueued, apiVars, retryVars, uploadVars>>
    /\ UNCHANGED <<processStructure, scenario, numInstances, pc,
                   modifiedActivities, caseId, visitedActivities, events,
                   resourceUtilization, metrics, error>>

(* a variant that marks the id visited before looking the activity up      *)
SkipMissingMarksVisited(C) ==
    /\ \A c \in C :
         /\ pc[c] = "case"
         /\ queue[c] # <<>>
         /\ HeadItem(c).activityId \notin visitedActivities[c]
         /\ FindActivity(modifiedActivities[c], HeadItem(c).activityId) = None
    /\ queue' = Upd(queue, C, LAMBDA c : Tail(queue[c]))
    /\ visitedActivities' =
         Upd(visitedActivities, C,
             LAMBDA c : visitedActivities[c] \cup {HeadItem(c).activityId})
    /\ lastDraws' = Upd(lastDraws, C, LAMBDA c : <<>>)
    /\ UNCHANGED <<enqueued, apiVars, retryVars, uploadVars>>
    /\ UNCHANGED <<processStructure, scenario, numInstances, pc,
                   modifiedActivities, caseId, events,
                   resourceUtilization, metrics, error>>

(* a variant without the test of agent3.ts:364: reading a field of the     *)
(* activity that was not found throws                                      *)
SkipMissingThrows(C) ==
    /\ \A c \in C :
         /\ pc[c] = "case"
         /\ queue[c] # <<>>
         /\ HeadItem(c).activityId \notin visitedActivities[c]
         /\ FindActivity(modifiedActivities[c], HeadItem(c).activityId) = None
    /\ queue' = Upd(queue, C, LAMBDA c : Tail(queue[c]))
    /\ error' = Upd(error, C, LAMBDA c : "TypeError")
    /\ pc' = Upd(pc, C, LAMBDA c : "failed")
    /\ lastDraws' = Upd(lastDraws, C, LAMBDA c : <<>>)
    /\ UNCHANGED <<enqueued, apiVars, retryVars, uploadVars>>
    /\ UNCHANGED <<processStructure, scenario, numInstances,
                   modifiedActivities, caseId, visitedActivities, events,
                   resourceUtilization, metrics>>

(* agent3.ts:363-364: no activity has the dequeued id, the item is         *)
(* discarded                                                               *)
SkipMissing(C) ==
    /\ \A c \in C :
         /\ pc[c] = "case"
         /\ queue[c] # <<>>
         /\ HeadItem(c).activityId \notin visitedActivities[c]
         /\ FindActivity(modifiedActivities[c], HeadItem(c).activityId) = None
    /\ queue' = Upd(queue, C, LAMBDA c : Tail(queue[c]))
    /\ lastDraws' = Upd(lastDraws, C, LAMBDA c : <<>>)
    /\ UNCHANGED <<enqueued, apiVars, retryVars, uploadVars>>
    /\ UNCHANGED <<processStructure, scenario, numInstances, pc,
                   modifiedActivities, caseId, visitedActivities, events,
                   resourceUtilization, metrics, error>>

CanExecute(c) ==
    /\ pc[c] = "case"
    /\ queue[c] # <<>>
    /\ HeadItem(c).activityId \notin visitedActivities[c]
    /\ FindActivity(modifiedActivities[c], HeadItem(c).activityId) # None

(* a variant in which an activity starts at the latest time of the items   *)
(* queued for it (it waits for all its predecessors)                       *)
IterationWaitsForAll(c, dr) ==
    LET item     == HeadItem(c)
        times    == { queue[c][n].time :
                        n \in { m \in 1..Len(queue[c]) :
                                  queue[c][m].activityId = item.activityId } }
        arrival  == CHOOSE t \in times : \A u \in times : u <= t
        activity == FindActivity(modifiedActivities[c], item.activityId)[1]
        out      == NextFlows(processStructure.flows, item.activityId)
    IN  With(RandomBetween(activity.duration.min, activity.duration.max, dr[1]),
             LAMBDA duration :
        With(EndTime(arrival, duration), LAMBDA endTime :
          [activity |-> activity, duration |-> duration, endTime |-> endTime,
           startEvent |-> StartEvent(caseId[c], activity, arrival),
           endEvent   |-> EndEvent(caseId[c], activity, endTime, duration),
           pushed     |-> Pushed(processStructure.flows, out, out, dr,
                                 endTime)]))

(* the values of one executing loop iteration (agent3.ts:366-410), dr      *)
(* being the values Math.random() returns in it                            *)
Iteration(c, dr) ==
    LET item     == HeadItem(c)
        activity == FindActivity(modifiedActivities[c], item.activityId)[1]
        out      == NextFlows(processStructure.flows, item.activityId)
    IN  With(RandomBetween(activity.duration.min, activity.duration.max, dr[1]),
             LAMBDA duration :
        With(EndTime(item.time, duration), LAMBDA endTime :
          [activity |-> activity, duration |-> duration, endTime |-> endTime,
           startEvent |-> StartEvent(caseId[c], activity, item.time),
           endEvent   |-> EndEvent(caseId[c], activity, endTime, duration),
           pushed     |-> Pushed(processStructure.flows, out, out, dr,
                                 endTime)]))

(* a variant that leaves out the visited.add of agent3.ts:398              *)
VisitedAfterForgets(visited, activityId) == visited

(* agent3.ts:398: visited.add(activityId)                                  *)
VisitedAfter(visited, activityId) == visited \cup {activityId}

(* agent3.ts:400-402: the busy minutes of a declared role                  *)
ResourceUtilAfter(resourceUtil, performer, duration) ==
    IF performer \in DOMAIN resourceUtil
    THEN [resourceUtil EXCEPT ![performer].total = FAdd(@, duration)]
    ELSE resourceUtil

(* a variant in which the log and the accumulator are fields shared by all *)
(* calls in flight instead of locals of one call                           *)
ExecuteActivityShared(C, dr) ==
    /\ \A c \in C : CanExecute(c)
    /\ \E it \in { Computed([c \in C |-> Iteration(c, dr)]) } :
         /\ \E c \in C :
              /\ events' =
                   [ d \in Calls |->
                       IF pc[d] \in {"loop", "case", "await"}
                       THEN events[d] \o <<it[c].startEvent, it[c].endEvent>>
                       ELSE events[d] ]
              /\ resourceUtilization' =
                   [ d \in Calls |->
                       IF pc[d] \in {"loop", "case", "await"}
                       THEN ResourceUtilAfter(resourceUtilization[d],
                                              it[c].activity.performer,
                                              it[c].duration)
                       ELSE resourceUtilization[d] ]
         /\ visitedActivities' =
              Upd(visitedActivities, C,
                  LAMBDA c : VisitedAfter(visitedActivities[c],
                                          HeadItem(c).activityId))
         /\ queue' = Upd(queue, C, LAMBDA c : Tail(queue[c]) \o it[c].pushed)
         /\ enqueued' = Upd(enqueued, C,
                            LAMBDA c : enqueued[c] + Len(it[c].pushed))
    /\ lastDraws' = Upd(lastDraws, C, LAMBDA c : dr)
    /\ UNCHANGED <<apiVars, retryVars, uploadVars>>
    /\ UNCHANGED <<processStructure, scenario, numInstances, pc,
                   modifiedActivities, caseId, metrics, error>>

(* a variant that keeps the log ordered by timestamp                       *)
ExecuteActivitySortedLog(C, dr) ==
    /\ \A c \in C : CanExecute(c)
    /\ \E it \in { Computed([c \in C |-> Iteration(c, dr)]) } :
         /\ events' =
              Upd(events, C,
                  LAMBDA c : SortByTimestamp(
                                 events[c]
                                 \o <<it[c].startEvent, it[c].endEvent>>))
         /\ visitedActivities' =
              Upd(visitedActivities, C,
                  LAMBDA c : VisitedAfter(visitedActivities[c],
                                          HeadItem(c).activityId))
         /\ resourceUtilization' =
              Upd(resourceUtilization, C,
                  LAMBDA c : ResourceUtilAfter(resourceUtilization[c],
                                               it[c].activity.performer,
                                               it[c].duration))
         /\ queue' = Upd(queue, C, LAMBDA c : Tail(queue[c]) \o it[c].pushed)
         /\ enqueued' = Upd(enqueued, C,
                            LAMBDA c : enqueued[c] + Len(it[c].pushed))
    /\ lastDraws' = Upd(lastDraws, C, LAMBDA c : dr)
    /\ UNCHANGED <<apiVars, retryVars, uploadVars>>
    /\ UNCHANGED <<processStructure, scenario, numInstances, pc,
                   modifiedActivities, caseId, metrics, error>>

(* agent3.ts:366-410: the dequeued activity is executed                    *)
ExecuteActivity(C, dr) ==
    /\ \A c \in C : CanExecute(c)
    /\ \E it \in { Computed([c \in C |-> Iteration(c, dr)]) } :
         /\ events' =
              Upd(events, C,
                  LAMBDA c : events[c] \o <<it[c].startEvent, it[c].endEvent>>)
         /\ visitedActivities' =
              Upd(visitedActivities, C,
                  LAMBDA c : VisitedAfter(visitedActivities[c],
                                          HeadItem(c).activityId))
         /\ resourceUtilization' =
              Upd(resourceUtilization, C,
                  LAMBDA c : ResourceUtilAfter(resourceUtilization[c],
                                               it[c].activity.performer,
                                               it[c].duration))
         /\ queue' = Upd(queue, C, LAMBDA c : Tail(queue[c]) \o it[c].pushed)
         /\ enqueued' = Upd(enqueued, C,
                            LAMBDA c : enqueued[c] + Len(it[c].pushed))
    /\ lastDraws' = Upd(lastDraws, C, LAMBDA c : dr)
    /\ UNCHANGED <<apiVars, retryVars, uploadVars>>
    /\ UNCHANGED <<processStructure, scenario, numInstances, pc,
                   modifiedActivities, caseId, metrics, error>>

(* the executing iteration, for every sequence of values Math.random() may *)
(* return in it                                                            *)
Execute(C) ==
    /\ \A c \in C : CanExecute(c)
    /\ \E n \in { DrawCount(processStructure.flows, HeadItem(c).activityId) :
                    c \in C } :
         \E dr \in DrawSeqs(n) : ExecuteActivity(C, dr)

(* agent3.ts:358 with an empty queue: simulateCase returns, and the await  *)
(* of agent3.ts:324 suspends simulateProcess with caseId as it is          *)
EndCase(C) ==
    /\ \A c \in C : pc[c] = "case" /\ queue[c] = <<>>
    /\ pc' = Upd(pc, C, LAMBDA c : "await")
    /\ lastDraws' = Upd(lastDraws, C, LAMBDA c : <<>>)
    /\ enqueued' = Upd(enqueued, C, LAMBDA c : 0)
    /\ UNCHANGED <<apiVars, retryVars, uploadVars>>
    /\ UNCHANGED <<processStructure, scenario, numInstances,
                   modifiedActivities, caseId, queue, visitedActivities,
                   events, resourceUtilization, metrics, error>>

(* agent3.ts:320: simulateProcess resumes after the await, caseId++, and   *)
(* is back at the test of the for loop                                     *)
ResumeLoop(C) ==
    /\ \A c \in C : pc[c] = "await"
    /\ caseId' = Upd(caseId, C, LAMBDA c : caseId[c] + 1)
    /\ pc' = Upd(pc, C, LAMBDA c : "loop")
    /\ lastDraws' = Upd(lastDraws, C, LAMBDA c : <<>>)
    /\ UNCHANGED <<enqueued, apiVars, retryVars, uploadVars>>
    /\ UNCHANGED <<processStructure, scenario, numInstances,
                   modifiedActivities, queue, visitedActivities, events,
                   resourceUtilization, metrics, error>>

(* agent3.ts:335: the loop is over, the log and the accumulator are        *)
(* returned                                                                *)
ReturnEvents(C) ==
    /\ \A c \in C : pc[c] = "loop" /\ caseId[c] > numInstances[c]
    /\ pc' = Upd(pc, C, LAMBDA c : "returned")
    /\ lastDraws' = Upd(lastDraws, C, LAMBDA c : <<>>)
    /\ UNCHANGED <<enqueued, apiVars, retryVars, uploadVars>>
    /\ UNCHANGED <<processStructure, scenario, numInstances,
                   modifiedActivities, caseId, queue, visitedActivities,
                   events, resourceUtilization, metrics, error>>

(* agent3.ts:702-706 / 923-927: the caller computes the metrics of the     *)
(* returned log; calculateWaitingTimes sorts the array it is given         *)
CalculateMetrics(C) ==
    /\ \A c \in C : pc[c] = "returned"
    /\ metrics' =
         Upd(metrics, C,
             LAMBDA c : Some(CalculatePerformanceMetrics(
                                 events[c], resourceUtilization[c],
                                 processStructure)))
    /\ events' = Upd(events, C, LAMBDA c : SortByTimestamp(events[c]))
    /\ pc' = Upd(pc, C, LAMBDA c : "done")
    /\ lastDraws' = Upd(lastDraws, C, LAMBDA c : <<>>)
    /\ UNCHANGED <<enqueued, apiVars, retryVars, uploadVars>>
    /\ UNCHANGED <<processStructure, scenario, numInstances,
                   modifiedActivities, caseId, queue, visitedActivities,
                   resourceUtilization, error>>

(* a second call of calculatePerformanceMetrics with the same arguments:    *)
(* the array is the one the first call sorted; metrics[c] keeps the        *)
(* results of both calls                                                   *)
CalculateMetricsAgain(C) ==
    /\ \A c \in C : pc[c] = "done"
    /\ metrics' =
         Upd(metrics, C,
             LAMBDA c : Append(metrics[c],
                               CalculatePerformanceMetrics(
                                   events[c], resourceUtilization[c],
                                   processStructure)))
    /\ events' = Upd(events, C, LAMBDA c : SortByTimestamp(events[c]))
    /\ pc' = Upd(pc, C, LAMBDA c : "again")
    /\ lastDraws' = Upd(lastDraws, C, LAMBDA c : <<>>)
    /\ UNCHANGED <<enqueued, apiVars, retryVars, uploadVars>>
    /\ UNCHANGED <<processStructure, scenario, numInstances,
                   modifiedActivities, caseId, queue, visitedActivities,
                   resourceUtilization, error>>

(* the while loop of simulateCase (agent3.ts:358-411)                      *)
CaseLoop(C) ==
    \/ SkipVisited(C)
    \/ SkipMissing(C)
    \/ Execute(C)
    \/ EndCase(C)

(* the steps of simulateProcess alone                                      *)
Simulate(C) ==
    \/ StartSimulation(C)
    \/ BeginCase(C)
    \/ BeginCaseThrows(C)
    \/ CaseLoop(C)
    \/ ResumeLoop(C)
    \/ ReturnEvents(C)

(* the steps the calls of C take together                                  *)
Step(C) ==
    \/ StartSimulation(C)
    \/ BeginCase(C)
    \/ BeginCaseThrows(C)
    \/ CaseLoop(C)
    \/ ResumeLoop(C)
    \/ ReturnEvents(C)
    \/ CalculateMetrics(C)
    \/ CalculateMetricsAgain(C)

----------------------------------------------------------------------------
(* The scenario loops: the exported simulateProcess (agent3.ts:905-944)    *)
(* and phase 3 of analyzeAndOptimize (agent3.ts:690-717).  Iteration i of  *)
(* the loop is call i of the method simulateProcess, for scenarios[i],     *)
(* followed by calculatePerformanceMetrics and the push of a result.       *)

(* iteration i is the current one: i - 1 results are pushed                *)
Iterating(i) ==
    /\ entry # "none"
    /\ response = None
    /\ i <= Len(scenarios)
    /\ Len(simulationResults) = i - 1

(* a variant of the exported function that puts the log into the result    *)
PushResultKeepsEvents(i) ==
    /\ entry = "simulateProcess"
    /\ Iterating(i)
    /\ pc[i] = "done"
    /\ simulationResults' =
         Append(simulationResults,
                [scenario |-> scenarios[i].scenarioName,
                 metrics  |-> metrics[i][1],
                 events   |-> events[i]])
    /\ UNCHANGED <<entry, scenarios, response>>
    /\ UNCHANGED <<simVars, retryVars, uploadVars>>

(* agent3.ts:929-933: the exported function pushes a result whose events   *)
(* are []                                                                  *)
PushResult(i) ==
    /\ entry = "simulateProcess"
    /\ Iterating(i)
    /\ pc[i] = "done"
    /\ simulationResults' =
         Append(simulationResults,
                [scenario |-> scenarios[i].scenarioName,
                 metrics  |-> metrics[i][1],
                 events   |-> <<>>])
    /\ UNCHANGED <<entry, scenarios, response>>
    /\ UNCHANGED <<simVars, retryVars, uploadVars>>

(* agent3.ts:708-712: analyzeAndOptimize pushes a result that holds the    *)
(* array simulateProcess returned (which the metrics call has sorted)      *)
PushResultWithEvents(i) ==
    /\ entry = "analyzeAndOptimize"
    /\ Iterating(i)
    /\ pc[i] = "done"
    /\ simulationResults' =
         Append(simulationResults,
                [scenario |-> scenarios[i].scenarioName,
                 metrics  |-> metrics[i][1],
                 events   |-> events[i]])
    /\ UNCHANGED <<entry, scenarios, response>>
    /\ UNCHANGED <<simVars, retryVars, uploadVars>>

(* the awaited simulateProcess call of iteration i rejected: neither loop  *)
(* catches it (analyzeAndOptimize rethrows, agent3.ts:769-772)             *)
LoopThrows(i) ==
    /\ Iterating(i)
    /\ pc[i] = "failed"
    /\ response' = Some([status |-> "threw", simulationResults |-> <<>>])
    /\ UNCHANGED <<entry, scenarios, simulationResults>>
    /\ UNCHANGED <<simVars, retryVars, uploadVars>>

(* agent3.ts:936-943: the loop of the exported function is over, the       *)
(* results are returned                                                    *)
ReturnResponse ==
    /\ entry = "simulateProcess"
    /\ response = None
    /\ Len(simulationResults) = Len(scenarios)
    /\ response' = Some([status |-> "returned",
                         simulationResults |-> simulationResults])
    /\ UNCHANGED <<entry, scenarios, simulationResults>>
    /\ UNCHANGED <<simVars, retryVars, uploadVars>>

(* agent3.ts:717-724: the loop of analyzeAndOptimize is over and phase 4   *)
(* takes simulationResults[0]; reading .metrics of undefined throws when   *)
(* there was no scenario                                                   *)
EndSimulationPhase ==
    /\ entry = "analyzeAndOptimize"
    /\ response = None
    /\ Len(simulationResults) = Len(scenarios)
    /\ response' =
         IF simulationResults = <<>>
         THEN Some([status |-> "threw", simulationResults |-> <<>>])
         ELSE Some([status |-> "simulated",
                    simulationResults |-> simulationResults])
    /\ UNCHANGED <<entry, scenarios, simulationResults>>
    /\ UNCHANGED <<simVars, retryVars, uploadVars>>

----------------------------------------------------------------------------
(* withRetry (agent3.ts:1096-1120), the wrapper generateContent and        *)
(* generateContentWithFile run their provider call in                      *)

RETRY_DELAY_MS == 1000

(* what an invocation of fn may throw: the configuration errors raised     *)
(* inside the callback (agent3.ts:1149, 1258-1259), an error of the        *)
(* provider, and a value that is not an Error                              *)
Thrown ==
    { [isError |-> TRUE,  message |-> "Unsupported AI model"],
      [isError |-> TRUE,  message |-> "OpenAI API key is required"],
      [isError |-> TRUE,  message |-> "503"],
      [isError |-> FALSE, message |-> "timeout"] }

(* what a successful invocation may return                                 *)
Returned == { "text" }

(* error instanceof Error ? error : new Error(String(error))               *)
AsError(e) == IF e.isError THEN e ELSE [isError |-> TRUE, message |-> e.message]

(* Math.pow(2, n) for a natural n                                          *)
RECURSIVE Pow2(_)
Pow2(n) == IF n = 0 THEN 1 ELSE 2 * Pow2(n - 1)

(* agent3.ts:1105: fn is invoked and resolves; withRetry returns its value *)
FnReturns(v) ==
    /\ retryPc = "loop"
    /\ attempt <= maxRetries
    /\ invocations' = Append(invocations, [ok |-> TRUE, value |-> v])
    /\ outcome' = Some([kind |-> "returned", value |-> v])
    /\ retryPc' = "returned"
    /\ UNCHANGED <<maxRetries, attempt, lastError, sleeps>>
    /\ UNCHANGED <<simVars, apiVars, uploadVars>>

(* a variant that gives up at once on a configuration error                *)
FnThrowsAbortsOnConfig(e) ==
    /\ retryPc = "loop"
    /\ attempt <= maxRetries
    /\ invocations' = Append(invocations, [ok |-> FALSE, value |-> e])
    /\ lastError' = Some(AsError(e))
    /\ IF e.message \in {"Unsupported AI model", "OpenAI API key is required"}
       THEN /\ retryPc' = "threw"
            /\ outcome' = Some([kind |-> "threw", value |-> Some(AsError(e))])
            /\ UNCHANGED <<sleeps, attempt>>
       ELSE IF attempt < maxRetries
       THEN /\ sleeps' = Append(sleeps, RETRY_DELAY_MS * Pow2(attempt - 1))
            /\ retryPc' = "sleeping"
            /\ UNCHANGED <<attempt, outcome>>
       ELSE /\ attempt' = attempt + 1
            /\ UNCHANGED <<sleeps, retryPc, outcome>>
    /\ UNCHANGED maxRetries
    /\ UNCHANGED <<simVars, apiVars, uploadVars>>

(* agent3.ts:1105-1116: fn is invoked and rejects with e; the error is     *)
(* kept and, unless this was the last attempt, the backoff sleep begins    *)
FnThrows(e) ==
    /\ retryPc = "loop"
    /\ attempt <= maxRetries
    /\ invocations' = Append(invocations, [ok |-> FALSE, value |-> e])
    /\ lastError' = Some(AsError(e))
    /\ IF attempt < maxRetries
       THEN /\ sleeps' = Append(sleeps, RETRY_DELAY_MS * Pow2(attempt - 1))
            /\ retryPc' = "sleeping"
            /\ UNCHANGED <<attempt, outcome>>
       ELSE /\ attempt' = attempt + 1
            /\ UNCHANGED <<sleeps, retryPc, outcome>>
    /\ UNCHANGED maxRetries
    /\ UNCHANGED <<simVars, apiVars, uploadVars>>

(* agent3.ts:1113 and 1103: the sleep is over, attempt++                   *)
WakeUp ==
    /\ retryPc = "sleeping"
    /\ attempt' = attempt + 1
    /\ retryPc' = "loop"
    /\ UNCHANGED <<maxRetries, lastError, invocations, sleeps, outcome>>
    /\ UNCHANGED <<simVars, apiVars, uploadVars>>

(* agent3.ts:1120: the loop is over, lastError is thrown                   *)
ThrowLastError ==
    /\ retryPc = "loop"
    /\ attempt > maxRetries
    /\ outcome' = Some([kind |-> "threw", value |-> lastError])
    /\ retryPc' = "threw"
    /\ UNCHANGED <<maxRetries, attempt, lastError, invocations, sleeps>>
    /\ UNCHANGED <<simVars, apiVars, uploadVars>>

----------------------------------------------------------------------------
(* The upload handlers POST /api/agent2/analyze-pdf and                    *)
(* POST /api/pipeline/pdf-to-bpmn (part_001:105-200, server.ts:85-178).    *)
(* Requests are handled concurrently and interleave at the awaits.         *)

Requests == {1, 2}

(* the path multer stored the upload of request q at                       *)
UploadPath(q) == q

(* what analyzeProcessDocument may resolve with: the parsed JSON of the    *)
(* model's answer, which is null for the answer "null" (agent2.ts:100)     *)
AnalysisResults == { "parsed", "null" }

(* the catch block of a handler (part_001:129-140, 187-199): the upload is *)
(* removed if it still exists and the response 500 is sent                 *)
UploadsAfterCatch(q) ==
    IF reqFile[q] # None /\ reqFile[q][1] \in uploads
    THEN uploads \ {reqFile[q][1]} ELSE uploads

(* a variant of the catch block without the clean-up                       *)
CaughtKeepsFile(q) ==
    /\ uploads' = uploads
    /\ responses' = [responses EXCEPT ![q] = Append(@, 500)]
    /\ handlerPc' = [handlerPc EXCEPT ![q] = "finished"]

(* part_001:129-140: clean-up and res.status(500).json(...)                *)
Caught(q) ==
    /\ uploads' = UploadsAfterCatch(q)
    /\ responses' = [responses EXCEPT ![q] = Append(@, 500)]
    /\ handlerPc' = [handlerPc EXCEPT ![q] = "finished"]

(* fs.unlinkSync(pdfPath) followed by res.json(...) reading the fields of  *)
(* the results (part_001:120-128, 169-186); unlinkSync throws when the     *)
(* file is missing and reading a field of null throws, both caught         *)
UnlinkAndRespond(q, result) ==
    IF reqFile[q][1] \notin uploads THEN Caught(q)
    ELSE IF result = "null"
    THEN /\ uploads' = uploads \ {reqFile[q][1]}
         /\ responses' = [responses EXCEPT ![q] = Append(@, 500)]
         /\ handlerPc' = [handlerPc EXCEPT ![q] = "finished"]
    ELSE /\ uploads' = uploads \ {reqFile[q][1]}
         /\ responses' = [responses EXCEPT ![q] = Append(@, 200)]
         /\ handlerPc' = [handlerPc EXCEPT ![q] = "finished"]

(* part_001:107-110: no file came with the request                         *)
NoFile(q) ==
    /\ handlerPc[q] = "start"
    /\ reqFile[q] = None
    /\ responses' = [responses EXCEPT ![q] = Append(@, 400)]
    /\ handlerPc' = [handlerPc EXCEPT ![q] = "finished"]
    /\ UNCHANGED <<route, reqFile, uploads, analysisResult, bpmnCalls>>
    /\ UNCHANGED <<simVars, apiVars, retryVars>>

(* part_001:112-116: analyzeProcessDocument is called and awaited          *)
CallAnalysis(q) ==
    /\ handlerPc[q] = "start"
    /\ reqFile[q] # None
    /\ handlerPc' = [handlerPc EXCEPT ![q] = "analysis"]
    /\ UNCHANGED <<route, reqFile, uploads, analysisResult, bpmnCalls,
                   responses>>
    /\ UNCHANGED <<simVars, apiVars, retryVars>>

(* the analysis resolved, in the handler of analyze-pdf: part_001:118-128  *)
AnalysisReturns(q, r) ==
    /\ handlerPc[q] = "analysis"
    /\ route[q] = "analyze-pdf"
    /\ analysisResult' = [analysisResult EXCEPT ![q] = Some(r)]
    /\ UnlinkAndRespond(q, r)
    /\ UNCHANGED <<route, reqFile, bpmnCalls>>
    /\ UNCHANGED <<simVars, apiVars, retryVars>>

(* the analysis resolved, in the pipeline: generateBPMN is called with     *)
(* analysisResult.explanation and awaited (part_001:162-166); reading the  *)
(* field of null throws before the call                                    *)
AnalysisReturnsToPipeline(q, r) ==
    /\ handlerPc[q] = "analysis"
    /\ route[q] = "pdf-to-bpmn"
    /\ analysisResult' = [analysisResult EXCEPT ![q] = Some(r)]
    /\ IF r = "null"
       THEN /\ Caught(q)
            /\ UNCHANGED bpmnCalls
       ELSE /\ bpmnCalls' = [bpmnCalls EXCEPT ![q] = @ + 1]
            /\ handlerPc' = [handlerPc EXCEPT ![q] = "bpmn"]
            /\ UNCHANGED <<uploads, responses>>
    /\ UNCHANGED <<route, reqFile>>
    /\ UNCHANGED <<simVars, apiVars, retryVars>>

(* the analysis rejected: the catch block runs                             *)
AnalysisThrows(q) ==
    /\ handlerPc[q] = "analysis"
    /\ Caught(q)
    /\ UNCHANGED <<route, reqFile, analysisResult, bpmnCalls>>
    /\ UNCHANGED <<simVars, apiVars, retryVars>>

(* what generateBPMN may resolve with: the parsed JSON of the model's       *)
(* answer, returned unchecked, which is null for the answer "null"         *)
(* (part_001:439)                                                          *)
BpmnResults == { "parsed", "null" }

(* generateBPMN resolved with b: part_001:168-186.  The analysis result is *)
(* an object here (its field was read before the call); the upload is      *)
(* removed and res.json reads the fields of b, which throws when b is null *)
BpmnReturns(q, b) ==
    /\ handlerPc[q] = "bpmn"
    /\ UnlinkAndRespond(q, b)
    /\ UNCHANGED <<route, reqFile, analysisResult, bpmnCalls>>
    /\ UNCHANGED <<simVars, apiVars, retryVars>>

(* generateBPMN rejected: the catch block runs                             *)
BpmnThrows(q) ==
    /\ handlerPc[q] = "bpmn"
    /\ Caught(q)
    /\ UNCHANGED <<route, reqFile, analysisResult, bpmnCalls>>
    /\ UNCHANGED <<simVars, apiVars, retryVars>>

----------------------------------------------------------------------------
(* Specifications                                                          *)

(* the parts of the program a specification does not run stay as they are *)
ApiIdle ==
    /\ entry = "none"
    /\ scenarios = <<>>
    /\ simulationResults = <<>>
    /\ response = None


ProcessStructures ==
    [processName : {"P"}, activities : ActivityLists, flows : FlowLists,
     resources : {DeclaredResources}]

InitLocals ==
    /\ pc = [c \in Calls |-> "idle"]
    /\ modifiedActivities = [c \in Calls |-> <<>>]
    /\ caseId = [c \in Calls |-> 0]
    /\ queue = [c \in Calls |-> <<>>]
    /\ visitedActivities = [c \in Calls |-> {}]
    /\ events = [c \in Calls |-> <<>>]
    /\ resourceUtilization = [c \in Calls |-> [r \in {} |-> 0]]
    /\ metrics = [c \in Calls |-> None]
    /\ error = [c \in Calls |-> "none"]
    /\ lastDraws = [c \in Calls |-> <<>>]
    /\ enqueued = [c \in Calls |-> 0]

RetryIdle ==
    /\ maxRetries = 0
    /\ attempt = 0
    /\ lastError = None
    /\ retryPc = "idle"
    /\ invocations = <<>>
    /\ sleeps = <<>>
    /\ outcome = None

UploadIdle ==
    /\ route = [q \in Requests |-> "none"]
    /\ reqFile = [q \in Requests |-> None]
    /\ handlerPc = [q \in Requests |-> "idle"]
    /\ uploads = {}
    /\ analysisResult = [q \in Requests |-> None]
    /\ bpmnCalls = [q \in Requests |-> 0]
    /\ responses = [q \in Requests |-> <<>>]

(* Spec: call 1 of simulateProcess, followed by                            *)
(* calculatePerformanceMetrics; call 2 is never made                       *)
Init ==
    /\ processStructure \in ProcessStructures
    /\ \E s \in Scenarios : scenario = [c \in Calls |-> s]
    /\ \E n \in 0..MaxInstances : numInstances = [c \in Calls |-> n]
    /\ InitLocals
    /\ ApiIdle /\ RetryIdle /\ UploadIdle

Next == Step({1})

Spec == Init /\ [][Next]_vars

(* FairSpec: simulateProcess alone, under the baseline (overrides change   *)
(* durations and costs, never the traversal).  simulateCase is synchronous *)
(* code without a suspension point, so an iteration of its loop that can   *)
(* be taken is taken.                                                      *)
InitFair ==
    /\ Init
    /\ scenario[1].modifications = None

FairSpec == InitFair /\ [][Simulate({1})]_vars /\ WF_vars(CaseLoop({1}))

(* SpecTwin: two calls on the same ProcessStructure with the same instance *)
(* count and the same values of Math.random(), under scenarios that differ *)
(* only in modifications.resources                                         *)
InitTwin ==
    /\ processStructure \in ProcessStructures
    /\ \E s \in { t \in Scenarios : t.modifications # None } :
         \E r \in Opt(ResourceOverrides) \ {s.modifications[1].resources} :
            scenario = [c \in Calls |->
                          IF c = 1 THEN s
                          ELSE [s EXCEPT !.modifications[1].resources = r]]
    /\ \E n \in 0..MaxInstances : numInstances = [c \in Calls |-> n]
    /\ InitLocals
    /\ ApiIdle /\ RetryIdle /\ UploadIdle

NextTwin == Step({1, 2})

SpecTwin == InitTwin /\ [][NextTwin]_vars

(* SpecLog: calculatePerformanceMetrics applied, once and again, to an     *)
(* event log the caller supplies: any sequence of up to MaxLogLen events   *)
(* of two cases of the activities A1 and A2 (a start at minute 0 or 12, a  *)
(* completion at the end of the activity's duration), or the log of one    *)
(* case of the chain A1 -> A2                                              *)
LogEvents ==
    UNION { { StartEvent(k, a, StartTime),
              StartEvent(k, a, StartTime + 12 * MsPerMinute),
              EndEvent(k, a, StartTime + a.duration.max * MsPerMinute,
                       Num(a.duration.max)) } : k \in {1, 2}, a \in {A1, A2} }

ChainLog ==
    << StartEvent(1, A1, StartTime),
       EndEvent(1, A1, StartTime + 10 * MsPerMinute, Num(10)),
       StartEvent(1, A2, StartTime + 10 * MsPerMinute),
       EndEvent(1, A2, StartTime + 15 * MsPerMinute, Num(5)) >>

EventLogs == UNION { [1..n -> LogEvents] : n \in 0..MaxLogLen } \cup {ChainLog}

InitLog ==
    /\ processStructure = [processName |-> "P", activities |-> <<A1, A2>>,
                           flows |-> <<>>, resources |-> DeclaredResources]
    /\ scenario = [c \in Calls |->
                     [scenarioName |-> "Baseline", modifications |-> None]]
    /\ numInstances = [c \in Calls |-> 2]
    /\ pc = [c \in Calls |-> IF c = 1 THEN "returned" ELSE "idle"]
    /\ modifiedActivities = [c \in Calls |-> <<A1, A2>>]
    /\ caseId = [c \in Calls |-> 0]
    /\ queue = [c \in Calls |-> <<>>]
    /\ visitedActivities = [c \in Calls |-> {}]
    /\ \E log \in EventLogs :
         events = [c \in Calls |-> IF c = 1 THEN log ELSE <<>>]
    /\ resourceUtilization =
         [c \in Calls |-> InitResourceUtilization(DeclaredResources)]
    /\ metrics = [c \in Calls |-> None]
    /\ error = [c \in Calls |-> "none"]
    /\ lastDraws = [c \in Calls |-> <<>>]
    /\ enqueued = [c \in Calls |-> 0]
    /\ ApiIdle /\ RetryIdle /\ UploadIdle

NextLog == CalculateMetrics({1}) \/ CalculateMetricsAgain({1})

SpecLog == InitLog /\ [][NextLog]_vars

(* SpecInterleaved: two simulateProcess calls, for the baseline and for a  *)
(* what-if scenario, over the same ProcessStructure are in flight at once; *)
(* call 1 simulates up to MaxInstances instances and call 2 one (none if   *)
(* call 1 has none); their steps interleave at the await of                *)
(* agent3.ts:324, between two cases.  The graphs: no flow, a chain, a      *)
(* labelled flow, two branches and a cycle.                                *)
InterleavedStructures ==
    [processName : {"P"}, activities : ActivityLists,
     flows : { PickFlows(S) : S \in { {}, {7}, {2}, {1, 3}, {2, 6} } },
     resources : {DeclaredResources}]

InitInterleaved ==
    /\ processStructure \in InterleavedStructures
    /\ \E s, t \in Scenarios :
         /\ s.modifications = None
         /\ t.modifications # None
         /\ scenario = [c \in Calls |-> IF c = 1 THEN s ELSE t]
    /\ \E n \in 0..MaxInstances :
         numInstances = [c \in Calls |-> IF c = 1 \/ n = 0 THEN n ELSE 1]
    /\ InitLocals
    /\ ApiIdle /\ RetryIdle /\ UploadIdle

(* the await of agent3.ts:324 is the only suspension point of              *)
(* simulateProcess, and simulateCase has none: a call runs while every     *)
(* other call is suspended there, not yet started or over                  *)
Turn(c) == \A d \in Calls \ {c} : pc[d] \notin {"loop", "case"}

NextInterleaved ==
    \/ Turn(1) /\ Simulate({1})
    \/ Turn(2) /\ Simulate({2})

SpecInterleaved == InitInterleaved /\ [][NextInterleaved]_vars

(* SpecDeterministic: call 1 of simulateProcess, followed by               *)
(* calculatePerformanceMetrics, for up to MaxDeterministicInstances        *)
(* instances of a graph of the activities A1 and A2, whose durations are   *)
(* fixed, with the unconditional flow A1 -> A2 absent, present or listed   *)
(* twice                                                                   *)
DeterministicStructures ==
    [processName : {"P"}, activities : { <<>>, <<A1>>, <<A1, A2>> },
     flows : { <<>>, <<FlowUniverse[7]>>, <<FlowUniverse[7], FlowUniverse[7]>> },
     resources : {DeclaredResources}]

InitDeterministic ==
    /\ processStructure \in DeterministicStructures
    /\ \E s \in Scenarios : scenario = [c \in Calls |-> s]
    /\ \E n \in 0..MaxDeterministicInstances :
         numInstances = [c \in Calls |-> n]
    /\ InitLocals
    /\ ApiIdle /\ RetryIdle /\ UploadIdle

NextDeterministic == Step({1})

SpecDeterministic == InitDeterministic /\ [][NextDeterministic]_vars

(* SpecApi: the exported simulateProcess, or the scenario loop of          *)
(* analyzeAndOptimize, over a list of up to two scenarios                  *)
ScenarioLists ==
    { <<>>,
      << [scenarioName |-> "Baseline", modifications |-> None] >>,
      << [scenarioName |-> "Baseline", modifications |-> None],
         WhatIf("Slow review", Some(SlowReview), None) >>,
      << WhatIf("Free approval", Some(FreeApproval), Some(MoreClerks)),
         [scenarioName |-> "Baseline", modifications |-> None] >> }

InitApi ==
    /\ processStructure \in InterleavedStructures
    /\ entry \in {"simulateProcess", "analyzeAndOptimize"}
    /\ scenarios \in ScenarioLists
    /\ scenario = [c \in Calls |->
                     IF c <= Len(scenarios) THEN scenarios[c]
                     ELSE [scenarioName |-> "Baseline", modifications |-> None]]
    /\ \E n \in 0..MaxInstances : numInstances = [c \in Calls |-> n]
    /\ InitLocals
    /\ simulationResults = <<>>
    /\ response = None
    /\ RetryIdle /\ UploadIdle

NextApi ==
    \/ \E i \in Calls :
         \/ Iterating(i) /\ StartSimulation({i})
         \/ Iterating(i) /\ BeginCase({i})
         \/ Iterating(i) /\ BeginCaseThrows({i})
         \/ Iterating(i) /\ CaseLoop({i})
         \/ Iterating(i) /\ ResumeLoop({i})
         \/ Iterating(i) /\ ReturnEvents({i})
         \/ Iterating(i) /\ CalculateMetrics({i})
         \/ PushResult(i)
         \/ PushResultWithEvents(i)
         \/ LoopThrows(i)
    \/ ReturnResponse
    \/ EndSimulationPhase

SpecApi == InitApi /\ [][NextApi]_vars

(* SpecRetry: one call of withRetry, fn settling in any way at every       *)
(* invocation                                                              *)
InitRetry ==
    /\ maxRetries \in 0..MaxRetryBound
    /\ attempt = 1
    /\ lastError = None
    /\ retryPc = "loop"
    /\ invocations = <<>>
    /\ sleeps = <<>>
    /\ outcome = None
    /\ processStructure = [processName |-> "P", activities |-> <<>>,
                           flows |-> <<>>, resources |-> <<>>]
    /\ scenario = [c \in Calls |->
                     [scenarioName |-> "Baseline", modifications |-> None]]
    /\ numInstances = [c \in Calls |-> 0]
    /\ InitLocals
    /\ ApiIdle /\ UploadIdle

NextRetry ==
    \/ \E v \in Returned : FnReturns(v)
    \/ \E e \in Thrown : FnThrows(e)
    \/ WakeUp
    \/ ThrowLastError

SpecRetry == InitRetry /\ [][NextRetry]_vars

(* SpecUpload: two requests, each to either endpoint, with or without a    *)
(* file; the file of a request is in uploads/ when its handler starts      *)
InitUpload ==
    /\ route \in [Requests -> {"analyze-pdf", "pdf-to-bpmn"}]
    /\ \E withFile \in SUBSET Requests :
         /\ reqFile = [q \in Requests |->
                         IF q \in withFile THEN Some(UploadPath(q)) ELSE None]
         /\ uploads = { UploadPath(q) : q \in withFile }
    /\ handlerPc = [q \in Requests |-> "start"]
    /\ analysisResult = [q \in Requests |-> None]
    /\ bpmnCalls = [q \in Requests |-> 0]
    /\ responses = [q \in Requests |-> <<>>]
    /\ processStructure = [processName |-> "P", activities |-> <<>>,
                           flows |-> <<>>, resources |-> <<>>]
    /\ scenario = [c \in Calls |->
                     [scenarioName |-> "Baseline", modifications |-> None]]
    /\ numInstances = [c \in Calls |-> 0]
    /\ InitLocals
    /\ ApiIdle /\ RetryIdle

NextUpload ==
    \E q \in Requests :
       \/ NoFile(q)
       \/ CallAnalysis(q)
       \/ \E r \in AnalysisResults : AnalysisReturns(q, r)
       \/ \E r \in AnalysisResults : AnalysisReturnsToPipeline(q, r)
       \/ AnalysisThrows(q)
       \/ \E b \in BpmnResults : BpmnReturns(q, b)
       \/ BpmnThrows(q)

SpecUpload == InitUpload /\ [][NextUpload]_vars

----------------------------------------------------------------------------
(* Properties                                                              *)

(* places in the log of call c of the events of one kind of activity a in  *)
(* case k                                                                  *)
EventsOf(c, k, a, kind) ==
    { i \in 1..Len(events[c]) : /\ events[c][i].caseId = k
                                /\ events[c][i].activityId = a
                                /\ events[c][i].event = kind }

LoggedActivityIds(c) == { events[c][i].activityId : i \in 1..Len(events[c]) }

(* C1. Single-visit invariant: in the event log, every case id has at most *)
(* one 'start' event and at most one 'complete' event per activity id,     *)
(* whatever the graph shape and the random draws.                          *)
SingleVisit ==
    \A c \in Calls : \A k \in CaseIds(events[c]) : \A a \in LoggedActivityIds(c) :
        /\ Cardinality(EventsOf(c, k, a, "start")) <= 1
        /\ Cardinality(EventsOf(c, k, a, "complete")) <= 1

(* C1 witness: an item for an activity that already has its events in the  *)
(* log of the current case is at the head of the queue (the activity was   *)
(* reached again through another flow, a self-loop or a cycle).            *)
SingleVisitWitness ==
    /\ pc[1] = "case"
    /\ queue[1] # <<>>
    /\ HeadItem(1).activityId \in visitedActivities[1]
    /\ EventsOf(1, caseId[1], HeadItem(1).activityId, "start") # {}

(* C2. Event-count invariant: when simulateCase returns, the case that     *)
(* visited k distinct activities has exactly 2k events in the log, one     *)
(* 'start' and one 'complete' per visited activity and none for any other  *)
(* activity.                                                               *)
EventCount ==
    \A c \in Calls :
      (pc[c] = "case" /\ queue[c] = <<>>) =>
        LET mine == { i \in 1..Len(events[c]) :
                        events[c][i].caseId = caseId[c] }
        IN  /\ Cardinality(mine) = 2 * Cardinality(visitedActivities[c])
            /\ \A a \in visitedActivities[c] :
                 /\ Cardinality(EventsOf(c, caseId[c], a, "start")) = 1
                 /\ Cardinality(EventsOf(c, caseId[c], a, "complete")) = 1
            /\ \A i \in mine : events[c][i].activityId \in visitedActivities[c]

(* C2 witness: the second case of a run returns having visited three       *)
(* activities.                                                             *)
EventCountWitness ==
    /\ pc[1] = "case"
    /\ queue[1] = <<>>
    /\ caseId[1] = 2
    /\ Cardinality(visitedActivities[1]) = 3

(* C3. Termination: the work-queue loop of every case eventually empties   *)
(* the queue and simulateCase returns, for every flow list (cycles and     *)
(* self-loops included) and every outcome of the draws.                    *)
CaseTerminates == (pc[1] = "case") ~> (pc[1] = "await" /\ queue[1] = <<>>)

(* C3 witness: a case has returned after going round the cycle A1 -> A2 -> *)
(* A1.                                                                     *)
CaseTerminatesWitness ==
    /\ pc[1] = "await"
    /\ caseId[1] = 1
    /\ {"A1", "A2"} \subseteq visitedActivities[1]
    /\ \E i, j \in 1..Len(processStructure.flows) :
         /\ processStructure.flows[i].from = "A1"
         /\ processStructure.flows[i].to = "A2"
         /\ processStructure.flows[j].from = "A2"
         /\ processStructure.flows[j].to = "A1"

(* the numeric fields of a metrics record                                  *)
NumericFields(m) ==
    { m.throughput.avg, m.throughput.min, m.throughput.max,
      m.throughput.median, m.cost.avg, m.cost.total }
    \cup { m.utilization[role] : role \in DOMAIN m.utilization }

(* C4. Metrics degeneracy: the metrics of an event log with zero completed *)
(* cases (the empty log of a run with zero instances included) have        *)
(* casesCompleted = 0 and only finite numeric fields, never NaN or an      *)
(* Infinity.                                                               *)
MetricsDegeneracy ==
    \A c \in Calls :
      (pc[c] = "done" /\ CompletedCases(events[c]) = <<>>) =>
        /\ metrics[c][1].casesCompleted = 0
        /\ \A x \in NumericFields(metrics[c][1]) : IsFiniteNumber(x)

(* C5. Empty activity list: simulateProcess on an empty activity list      *)
(* fails, for every instance count, with a validation error raised before  *)
(* any case is begun and before any event is appended.                     *)
EmptyActivityListFailsFast ==
    (processStructure.activities = <<>>) =>
        /\ pc[1] \in {"idle", "loop", "failed"}
        /\ (pc[1] = "failed" => error[1] = "ValidationError")
        /\ events[1] = <<>>

(* the modifications of the scenario of call c, <<>> when it has none      *)
ActivityModifications(c) ==
    IF scenario[c].modifications = None THEN <<>>
    ELSE IF scenario[c].modifications[1].activities = None THEN <<>>
    ELSE scenario[c].modifications[1].activities[1]

(* C6. Scenario override semantics: an activity with a matching            *)
(* modification comes out with duration, cost and resource units equal to  *)
(* the override's value wherever the override specifies one (any cost or   *)
(* resource units >= 0 included) and to the original's otherwise; an       *)
(* activity with no matching modification comes out unchanged.             *)
OverrideSemantics ==
    \A c \in Calls :
      pc[c] # "idle" =>
        LET in  == processStructure.activities
            out == modifiedActivities[c]
        IN  /\ Len(out) = Len(in)
            /\ \A i \in 1..Len(in) :
                 LET m == FindModification(ActivityModifications(c), in[i].id)
                 IN  IF m = None THEN out[i] = in[i]
                     ELSE out[i] =
                            [in[i] EXCEPT
                               !.duration  = IF m[1].duration # None
                                             THEN m[1].duration[1] ELSE @,
                               !.cost      = IF m[1].cost # None
                                             THEN m[1].cost[1] ELSE @,
                               !.resources = IF m[1].resources # None
                                             THEN m[1].resources[1] ELSE @]

(* C7. The scenario modifier is pure and id-preserving: no step changes    *)
(* the caller's activity records, and applyScenarioModifications returns,  *)
(* without an error, a list of the same length with the same activity ids  *)
(* in the same order, also when a modification names an unknown id.        *)
ScenarioModifierPure ==
    [][ /\ processStructure' = processStructure
        /\ (pc[1] = "idle" /\ pc'[1] # "idle") =>
             /\ pc'[1] = "loop"
             /\ error'[1] = "none"
             /\ Len(modifiedActivities'[1]) = Len(processStructure.activities)
             /\ \A i \in 1..Len(processStructure.activities) :
                  modifiedActivities'[1][i].id =
                    processStructure.activities[i].id ]_vars

(* C7 witness: the scenario has a modification for an id that no activity  *)
(* has, and the modifier has run and replaced a field of an activity.      *)
ScenarioModifierWitness ==
    /\ pc[1] # "idle"
    /\ \E j \in 1..Len(ActivityModifications(1)) :
         \A i \in 1..Len(processStructure.activities) :
            processStructure.activities[i].id # ActivityModifications(1)[j].id
    /\ modifiedActivities[1] # processStructure.activities

(* C8. Resource overrides are never applied: of two calls that differ only *)
(* in modifications.resources of their scenarios and get the same values   *)
(* of Math.random(), the event logs, the busy-minute accumulators and the  *)
(* metrics are identical at every step.                                    *)
ResourceOverridesIgnored ==
    /\ pc[1] = pc[2]
    /\ events[1] = events[2]
    /\ resourceUtilization[1] = resourceUtilization[2]
    /\ metrics[1] = metrics[2]

(* C8 witness: both calls are done, the scenarios differ in their resource *)
(* overrides, and a declared role has busy minutes.                        *)
ResourceOverridesWitness ==
    /\ pc[1] = "done" /\ pc[2] = "done"
    /\ scenario[1].modifications[1].resources
         # scenario[2].modifications[1].resources
    /\ FLess(Num(0), resourceUtilization[1]["Clerk"].total)
    /\ metrics[2][1].casesCompleted = 2

(* the step is an executing loop iteration of call 1                       *)
Executes == lastDraws'[1] # <<>>

(* the items the step of call 1 appended to the queue                      *)
Appended == SubSeq(queue'[1], Len(queue[1]), Len(queue'[1]))

(* the place in lastDraws' of the value drawn for the labelled flow at     *)
(* place i of the flow list, a being the executed activity                 *)
DrawPlace(a, i) ==
    1 + Cardinality({ j \in 1..i :
                        /\ processStructure.flows[j].from = a
                        /\ processStructure.flows[j].condition
                             \notin {None, Some("")} })

Labelled(flow) == flow.condition \notin {None, Some("")}

(* C9 as claimed. The condition label never gates traversal: of two        *)
(* outgoing flows of the executed activity with the same endpoints and the *)
(* same probability, one labelled and one not, both are traversed or       *)
(* neither is, given the draw of the iteration.                            *)
LabelNeverGates ==
    [][ Executes =>
          LET flows == processStructure.flows
              a     == HeadItem(1).activityId
              out   == { i \in 1..Len(flows) : flows[i].from = a }
          IN  \A i, j \in out :
                ( /\ Labelled(flows[i]) /\ ~ Labelled(flows[j])
                  /\ flows[i].to = flows[j].to
                  /\ flows[i].probability = flows[j].probability
                  /\ \A k \in out \ {i, j} : flows[k].to # flows[i].to )
                => Cardinality({ n \in 1..Len(Appended) :
                                   Appended[n].activityId = flows[i].to })
                     \in {0, 2} ]_vars

(* C9 as amended. The text of the label is never evaluated, only its       *)
(* presence matters: in an executing iteration every outgoing flow without *)
(* a label is traversed whatever its probability and the draws, and the    *)
(* labelled outgoing flows traversed are those whose draw is less than     *)
(* their probability, whatever their labels say.                           *)
LabelPresenceGates ==
    [][ Executes =>
          LET flows == processStructure.flows
              a     == HeadItem(1).activityId
              out   == { i \in 1..Len(flows) : flows[i].from = a }
              plain == { i \in out : ~ Labelled(flows[i]) }
              won   == { i \in out \ plain :
                           lastDraws'[1][DrawPlace(a, i)] <
                             (IF flows[i].probability = None THEN 100
                              ELSE flows[i].probability[1]) }
          IN  /\ Len(Appended) = Cardinality(plain) + Cardinality(won)
              /\ \A t \in { flows[i].to : i \in out } :
                   Cardinality({ n \in 1..Len(Appended) :
                                   Appended[n].activityId = t })
                     = Cardinality({ i \in plain \cup won : flows[i].to = t })
        ]_vars

(* C9 witness: A1 was executed with an unlabelled and a labelled flow to   *)
(* A2 of the same probability, the labelled one lost its draw, and one     *)
(* item for A2 is in the queue.                                            *)
LabelPresenceWitness ==
    /\ pc[1] = "case"
    /\ visitedActivities[1] = {"A1"}
    /\ Len(processStructure.flows) >= 2
    /\ processStructure.flows[1] = FlowUniverse[1]
    /\ processStructure.flows[2] = FlowUniverse[2]
    /\ lastDraws[1] # <<>>
    /\ lastDraws[1][2] = 50
    /\ Cardinality({ n \in 1..Len(queue[1]) :
                       queue[1][n].activityId = "A2" }) = 1

(* C10. Flow-firing rule: an executing iteration removes the head of the   *)
(* queue and appends, in flow-list order, the item {flow.to, completion    *)
(* time} of exactly the outgoing flows that have no condition or whose     *)
(* draw is less than their probability (1.0 when absent).                  *)
FlowFiringRule ==
    [][ Executes =>
          LET flows == processStructure.flows
              a     == HeadItem(1).activityId
              done  == events'[1][Len(events'[1])].timestamp
              fires(i) ==
                  /\ flows[i].from = a
                  /\ \/ flows[i].condition \in {None, Some("")}
                     \/ lastDraws'[1][DrawPlace(a, i)] <
                          (IF flows[i].probability = None THEN 100
                           ELSE flows[i].probability[1])
              expected[n \in 0..Len(flows)] ==
                  IF n = 0 THEN <<>>
                  ELSE expected[n - 1]
                       \o (IF fires(n)
                           THEN << [activityId |-> flows[n].to, time |-> done] >>
                           ELSE <<>>)
          IN  queue'[1] = Tail(queue[1]) \o expected[Len(flows)] ]_vars

(* C10 witness: the activity A1 completed after minute 0 and three of its  *)
(* outgoing flows fired in the same iteration.                             *)
FlowFiringWitness ==
    /\ pc[1] = "case"
    /\ visitedActivities[1] = {"A1"}
    /\ lastDraws[1] # <<>>
    /\ Len(queue[1]) = 3
    /\ \A n \in 1..Len(queue[1]) : queue[1][n].time > StartTime

(* the ids of the scenario-modified activity list of call c                *)
ActivityIds(c) ==
    { modifiedActivities[c][i].id : i \in 1..Len(modifiedActivities[c]) }

(* C11. Dangling-reference tolerance: when the dequeued item names an id   *)
(* that is not in the scenario-modified activity list, the iteration emits *)
(* no event, marks nothing visited, raises no error and goes on with the   *)
(* rest of the queue; every event of the log carries an activityId of the  *)
(* activity list.                                                          *)
DanglingTolerated ==
    [][ /\ ( /\ pc[1] = "case"
             /\ queue[1] # <<>>
             /\ HeadItem(1).activityId \notin ActivityIds(1) )
           => /\ events'[1] = events[1]
              /\ visitedActivities'[1] = visitedActivities[1]
              /\ error'[1] = "none"
              /\ pc'[1] = "case"
              /\ queue'[1] = Tail(queue[1])
        /\ \A i \in 1..Len(events'[1]) :
              events'[1][i].activityId \in ActivityIds(1) ]_vars

(* C11 witness: A1 was executed, its only flow leads to the id A2 that no  *)
(* activity of the list has, the item for A2 was discarded and the queue   *)
(* is empty.                                                               *)
DanglingToleratedWitness ==
    /\ pc[1] = "case"
    /\ processStructure.activities = << A1 >>
    /\ processStructure.flows = << FlowUniverse[7] >>
    /\ visitedActivities[1] = {"A1"}
    /\ Len(events[1]) = 2
    /\ queue[1] = <<>>
    /\ lastDraws[1] = <<>>

(* the events of case k in the log of call c, by kind                      *)
CaseEvents(c, k, kind) ==
    { i \in 1..Len(events[c]) :
        events[c][i].caseId = k /\ events[c][i].event = kind }

(* the cases of the log of call c that have a start and a complete event   *)
CasesWithStartAndEnd(c) ==
    { k \in CaseIds(events[c]) :
        CaseEvents(c, k, "start") # {} /\ CaseEvents(c, k, "complete") # {} }

(* latest 'complete' timestamp minus earliest 'start' timestamp of the     *)
(* cases with both, in hours, by ascending case id                         *)
CaseSpans(c) ==
    LET ids == Ascending(CasesWithStartAndEnd(c))
        Latest(k)   == CHOOSE t \in { events[c][i].timestamp :
                                        i \in CaseEvents(c, k, "complete") } :
                          \A i \in CaseEvents(c, k, "complete") :
                              events[c][i].timestamp <= t
        Earliest(k) == CHOOSE t \in { events[c][i].timestamp :
                                        i \in CaseEvents(c, k, "start") } :
                          \A i \in CaseEvents(c, k, "start") :
                              t <= events[c][i].timestamp
    IN  [ n \in 1..Len(ids) |->
            Frac(Latest(ids[n]) - Earliest(ids[n]), 60 * MsPerMinute) ]

(* C12. Throughput is the wall-clock span of a case: the throughput values *)
(* the metrics are computed from are, for every completed case, its latest *)
(* 'complete' timestamp minus its first 'start' timestamp, also when an    *)
(* activity has several outgoing flows with branches of different          *)
(* durations.                                                              *)
ThroughputIsSpan ==
    (pc[1] = "done" /\ CasesWithStartAndEnd(1) # {}) =>
        /\ metrics[1][1].throughput.min = MathMin(CaseSpans(1))
        /\ metrics[1][1].throughput.max = MathMax(CaseSpans(1))
        /\ metrics[1][1].throughput.avg =
             FDiv(FSum(CaseSpans(1)), Num(Len(CaseSpans(1))))

(* C14. Metrics aggregation does not modify the event log: after           *)
(* calculatePerformanceMetrics returns, the array it was given holds the   *)
(* same events in the same order as before the call.                       *)
LogUnchangedByMetrics ==
    [][ (pc[1] = "returned" /\ pc'[1] = "done") => events'[1] = events[1] ]_vars

(* C15. Metrics are a function of the log: two calls of                    *)
(* calculatePerformanceMetrics in succession with the same log, the same   *)
(* accumulator and the same ProcessStructure return equal records.         *)
MetricsRepeatable ==
    pc[1] = "again" => metrics[1][1] = metrics[1][2]

(* the durations of the events at the places S of a log, in log order     *)
RECURSIVE DurationsAt(_, _)
DurationsAt(evs, S) ==
    IF S = {} THEN <<>>
    ELSE <<evs[SetMin(S)].duration[1]>> \o DurationsAt(evs, S \ {SetMin(S)})

(* their sum, added up in log order from 0                                 *)
SumDurations(evs, S) == FSum(DurationsAt(evs, S))

(* C16. Busy-minutes accumulator: when simulateProcess has returned, for   *)
(* every performer name of the log the accumulator's total is the sum of   *)
(* the durations of the 'complete' events of that performer, whether or    *)
(* not the performer is a declared Resource role.                          *)
BusyMinutes ==
    pc[1] = "returned" =>
      \A p \in { events[1][i].resource : i \in 1..Len(events[1]) } :
         /\ p \in DOMAIN resourceUtilization[1]
         /\ resourceUtilization[1][p].total =
              SumDurations(events[1],
                           { i \in 1..Len(events[1]) :
                               /\ events[1][i].event = "complete"
                               /\ events[1][i].resource = p })

(* C17. Utilization formula: for every role of the accumulator the         *)
(* reported utilization is 100 * busyMinutes / (480 * (completedCaseCount  *)
(* / 5) * roleCapacity), with the number of cases that have a start and an *)
(* end and the role's declared capacity; a role with zero busy minutes is  *)
(* reported as 0.                                                          *)
UtilizationFormula ==
    pc[1] = "done" =>
      \A role \in DOMAIN resourceUtilization[1] :
         LET busy == resourceUtilization[1][role].total
             n    == Cardinality(CasesWithStartAndEnd(1))
             res  == processStructure.resources
             cap  == res[CHOOSE i \in 1..Len(res) : res[i].role = role].capacity
         IN  /\ metrics[1][1].utilization[role] =
                  FDiv(FMul(Num(100), busy),
                       FMul(Frac(480 * n, 5), Num(cap)))
             /\ busy = Num(0) => metrics[1][1].utilization[role] = Num(0)

RECURSIVE SumCosts(_, _)
SumCosts(evs, S) ==
    IF S = {} THEN 0
    ELSE LET i == CHOOSE j \in S : TRUE
         IN  evs[i].cost + SumCosts(evs, S \ {i})

(* C13. Completed-case count: for any event log, casesCompleted is the     *)
(* number of case ids with at least one 'start' and at least one           *)
(* 'complete' event, the cases whose costs are summed and averaged.        *)
CompletedCaseCount ==
    pc[1] = "done" =>
        /\ metrics[1][1].casesCompleted = Cardinality(CasesWithStartAndEnd(1))
        /\ metrics[1][1].cost.total =
             Num(SumCosts(events[1],
                          { i \in 1..Len(events[1]) :
                              /\ events[1][i].event = "complete"
                              /\ events[1][i].caseId \in CasesWithStartAndEnd(1) }))

(* every activity has min = max and every flow is unconditional with       *)
(* probability 1.0                                                         *)
DeterministicGraph ==
    /\ processStructure.activities # <<>>
    /\ \A i \in 1..Len(processStructure.activities) :
         processStructure.activities[i].duration.min =
           processStructure.activities[i].duration.max
    /\ \A i \in 1..Len(processStructure.flows) :
         /\ processStructure.flows[i].condition = None
         /\ processStructure.flows[i].probability = Some(100)

(* the graph A1 (10 min, cost 5) -> A2 (5 min, cost 3), run as it is       *)
ExampleGraph ==
    /\ processStructure.activities = <<A1, A2>>
    /\ processStructure.flows = << FlowUniverse[7] >>
    /\ scenario[1].modifications = None

OnePlusTolerance == FAdd(Num(1), Finite(1, <<1>>, -50))

(* x and y are positive and differ by less than 2^-50 of their value       *)
WithinRounding(x, y) ==
    /\ FLess(Zero, x) /\ FLess(Zero, y)
    /\ ~ FLess(FMul(y, OnePlusTolerance), x)
    /\ ~ FLess(FMul(x, OnePlusTolerance), y)

GraphReadOnly == [][processStructure' = processStructure]_vars

(* C19 witness: a run under a scenario whose overrides changed an activity *)
(* has logged events and its metrics are computed.                         *)
GraphReadOnlyWitness ==
    /\ pc[1] = "done"
    /\ modifiedActivities[1] # processStructure.activities
    /\ Len(events[1]) >= 4

(* the locals of call c                                                    *)
Locals(c) ==
    <<pc[c], modifiedActivities[c], caseId[c], queue[c], visitedActivities[c],
      events[c], resourceUtilization[c], error[c]>>

(* every event of the log evs is one that a case of a call emits whose     *)
(* scenario-modified activities are acts and whose case counter is at      *)
(* last: it carries the name, performer, cost and a duration of the        *)
(* activity of its id                                                      *)
OwnEvents(evs, acts, last) ==
    \A i \in 1..Len(evs) :
       LET e == evs[i]
           a == FindActivity(acts, e.activityId)
       IN  /\ a # None
           /\ e.activity = a[1].name
           /\ e.resource = a[1].performer
           /\ e.caseId \in 1..last
           /\ e.event = "complete" =>
                /\ e.cost = a[1].cost
                /\ ~ FLess(e.duration[1], Num(a[1].duration.min))
                /\ ~ FLess(Num(a[1].duration.max), e.duration[1])

(* the accumulator util holds, for every role, the durations of the log    *)
(* evs                                                                     *)
OwnDurations(evs, util) ==
    \A role \in DOMAIN util :
       util[role].total =
         SumDurations(evs, { i \in 1..Len(evs) :
                               /\ evs[i].event = "complete"
                               /\ evs[i].resource = role })

(* C20. Scenario runs are independent under interleaving: with two         *)
(* simulateProcess calls for different scenarios in flight at once, a step *)
(* of one call changes no local of the other, the log of each call holds   *)
(* only events of its own cases and its accumulator only its own           *)
(* durations.                                                              *)
IndependentRuns ==
    [][ /\ Locals(1)' # Locals(1) => Locals(2)' = Locals(2)
        /\ Locals(2)' # Locals(2) => Locals(1)' = Locals(1)
        /\ \A c \in Calls :
             pc'[c] # "idle" =>
                /\ OwnEvents(events'[c], modifiedActivities'[c], caseId'[c])
                /\ OwnDurations(events'[c], resourceUtilization'[c]) ]_vars

(* C20 witness: both calls have returned their logs, call 1 of two cases,  *)
(* the scenario of call 2 having changed an activity that both calls       *)
(* executed.                                                               *)
IndependentRunsWitness ==
    /\ pc[1] = "returned" /\ pc[2] = "returned"
    /\ CaseIds(events[1]) = {1, 2}
    /\ modifiedActivities[1] # modifiedActivities[2]
    /\ events[1] # events[2]
    /\ Len(events[1]) >= 4
    /\ Len(events[2]) >= 4

(* the scenario-modified activity that an event of call c belongs to       *)
ActivityOf(c, e) == FindActivity(modifiedActivities[c], e.activityId)[1]

(* C21. Sampled durations stay in range: the duration d of every           *)
(* 'complete' event satisfies min <= d <= max of the scenario-modified     *)
(* range of its activity whenever min <= max, and equals d0 exactly when   *)
(* min = max = d0, in every case.                                          *)
DurationsInRange ==
    \A i \in 1..Len(events[1]) :
       events[1][i].event = "complete" =>
          LET d     == events[1][i].duration[1]
              range == ActivityOf(1, events[1][i]).duration
          IN  /\ range.min <= range.max =>
                   /\ ~ FLess(d, Num(range.min))
                   /\ ~ FLess(Num(range.max), d)
              /\ range.min = range.max => d = Num(range.min)

(* C21 witness: under the scenario that changes A1's range to 20..20, a    *)
(* second case has completed A1 in 20 minutes and A3 (2..5) in 3.5         *)
(* minutes.                                                                *)
DurationsInRangeWitness ==
    /\ pc[1] = "returned"
    /\ scenario[1].scenarioName = "Slow review"
    /\ \E i, j \in 1..Len(events[1]) :
         /\ events[1][i].caseId = 2
         /\ events[1][i].activityId = "A1"
         /\ events[1][i].duration = Some(Num(20))
         /\ events[1][j].caseId = 2
         /\ events[1][j].activityId = "A3"
         /\ events[1][j].duration = Some(Frac(7, 2))

(* C22. The exported simulateProcess returns one result per input          *)
(* scenario, in input order, each with that scenario's name and metrics    *)
(* and an empty events list; the scenario loop of analyzeAndOptimize keeps *)
(* each scenario's events in its result.                                   *)
PayloadOmitsEvents ==
    (response # None /\ response[1].status \in {"returned", "simulated"}) =>
        LET results == response[1].simulationResults
        IN  /\ Len(results) = Len(scenarios)
            /\ \A i \in 1..Len(scenarios) :
                 /\ results[i].scenario = scenarios[i].scenarioName
                 /\ results[i].metrics = metrics[i][1]
                 /\ pc[i] = "done"
                 /\ IF entry = "simulateProcess"
                    THEN results[i].events = <<>>
                    ELSE /\ results[i].events = events[i]
                         /\ Len(results[i].events) =
                              2 * Cardinality(
                                    { <<events[i][n].caseId,
                                        events[i][n].activityId>> :
                                        n \in 1..Len(events[i]) })

(* C22 witness: the exported function has returned the results of two      *)
(* scenarios whose runs logged events.                                     *)
PayloadOmitsEventsWitness ==
    /\ entry = "simulateProcess"
    /\ response # None
    /\ response[1].status = "returned"
    /\ Len(response[1].simulationResults) = 2
    /\ response[1].simulationResults[2].scenario = "Slow review"
    /\ Len(events[1]) >= 4
    /\ Len(events[2]) >= 4

(* C23. Entry point and case numbering: when a run of N >= 1 instances     *)
(* over a non-empty activity list returns, the log has events of exactly   *)
(* the case ids 1..N, and the first event of every case is the 'start'     *)
(* event of activities[0], stamped with the same fixed start time.         *)
EntryPointAndCaseIds ==
    ( /\ pc[1] = "returned"
      /\ numInstances[1] >= 1
      /\ processStructure.activities # <<>> ) =>
        /\ CaseIds(events[1]) = 1..numInstances[1]
        /\ \A k \in 1..numInstances[1] :
             LET first == events[1][SetMin({ i \in 1..Len(events[1]) :
                                               events[1][i].caseId = k })]
             IN  /\ first.event = "start"
                 /\ first.activityId = processStructure.activities[1].id
                 /\ first.timestamp = StartTime

(* C23 witness: a run of two instances over three activities returned a    *)
(* log in which the second case has events of another activity too.        *)
EntryPointWitness ==
    /\ pc[1] = "returned"
    /\ numInstances[1] = 2
    /\ Len(processStructure.activities) = 3
    /\ \E i \in 1..Len(events[1]) :
         events[1][i].caseId = 2 /\ events[1][i].activityId # "A1"

(* C24. Event timing and cost fields: an executing iteration appends the   *)
(* 'start' event of the activity, stamped with the item's arrival time,    *)
(* with cost 0 and no duration, and then its 'complete' event, stamped     *)
(* with arrival time + duration minutes and carrying that duration and the *)
(* scenario-modified cost of the activity; the run of one instance of      *)
(* A1 (10 min, cost 5) -> A2 (5 min, cost 3) returns exactly A1 start@0,   *)
(* A1 complete@10, A2 start@10, A2 complete@15.                            *)
EventFields ==
    [][ /\ Executes =>
             LET item == HeadItem(1)
                 a    == FindActivity(modifiedActivities[1], item.activityId)[1]
                 n    == Len(events[1])
                 s    == events'[1][n + 1]
                 e    == events'[1][n + 2]
             IN  /\ Len(events'[1]) = n + 2
                 /\ SubSeq(events'[1], 1, n) = events[1]
                 /\ s = [caseId |-> caseId[1], activity |-> a.name,
                         activityId |-> a.id, event |-> "start",
                         timestamp |-> item.time, resource |-> a.performer,
                         cost |-> 0, duration |-> None]
                 /\ e.duration # None
                 /\ e = [caseId |-> caseId[1], activity |-> a.name,
                         activityId |-> a.id, event |-> "complete",
                         timestamp |-> EndTime(item.time, e.duration[1]),
                         resource |-> a.performer,
                         cost |-> a.cost, duration |-> e.duration]
        /\ (pc'[1] = "returned" /\ ExampleGraph /\ numInstances[1] = 1) =>
             events'[1] =
               << StartEvent(1, A1, StartTime),
                  [StartEvent(1, A1, StartTime) EXCEPT
                     !.event = "complete", !.cost = 5, !.duration = Some(Num(10)),
                     !.timestamp = StartTime + 10 * MsPerMinute],
                  StartEvent(1, A2, StartTime + 10 * MsPerMinute),
                  [StartEvent(1, A2, StartTime) EXCEPT
                     !.event = "complete", !.cost = 3, !.duration = Some(Num(5)),
                     !.timestamp = StartTime + 15 * MsPerMinute] >> ]_vars

(* C24 witness: one instance of the chain A1 -> A2 has been run and its    *)
(* log of four events, the last stamped at minute 15, is returned.         *)
EventFieldsWitness ==
    /\ pc[1] = "returned"
    /\ ExampleGraph
    /\ numInstances[1] = 1
    /\ Len(events[1]) = 4
    /\ events[1][4].timestamp = StartTime + 15 * MsPerMinute

RECURSIVE SumOver(_, _)
SumOver(f, S) ==
    IF S = {} THEN 0
    ELSE LET i == CHOOSE j \in S : TRUE IN f[i] + SumOver(f, S \ {i})

(* C25. Waiting-time bookkeeping: with the events in chronological order,  *)
(* every 'start' event that has a 'complete' event of its case before it   *)
(* contributes (its timestamp - the timestamp of the closest such          *)
(* 'complete' event), in minutes, to the bucket of its activity name, no   *)
(* other event contributes, and the value reported for a name is the mean  *)
(* of its bucket; for the log of a linear chain every reported value is 0. *)
WaitingTimes ==
    [][ (pc[1] = "returned" /\ pc'[1] = "done") =>
          LET sorted   == SortByTimestamp(events[1])
              Prior(i) == { j \in 1..Len(sorted) :
                              /\ j < i
                              /\ sorted[j].event = "complete"
                              /\ sorted[j].caseId = sorted[i].caseId }
              contrib  == { i \in 1..Len(sorted) :
                              sorted[i].event = "start" /\ Prior(i) # {} }
              closest(i) == CHOOSE j \in Prior(i) : \A k \in Prior(i) : k <= j
              sample   == [ i \in contrib |->
                              sorted[i].timestamp - sorted[closest(i)].timestamp ]
              bucket(a) == { i \in contrib : sorted[i].activity = a }
              reported == metrics'[1][1].waitingTime
          IN  /\ DOMAIN reported = { sorted[i].activity : i \in contrib }
              /\ \A a \in DOMAIN reported :
                   reported[a] = Frac(SumOver(sample, bucket(a)),
                                      MsPerMinute * Cardinality(bucket(a)))
              /\ events[1] = ChainLog =>
                   /\ DOMAIN reported = {"Approve"}
                   /\ reported["Approve"] = Num(0) ]_vars

(* C25 witness: the metrics of a log are computed in which a case has two  *)
(* 'complete' events, at minutes 5 and 10, followed by a 'start' event at  *)
(* minute 12, which waited 2 minutes.                                      *)
WaitingTimesWitness ==
    /\ pc[1] = "done"
    /\ Len(events[1]) = 3
    /\ events[1][1].event = "complete" /\ events[1][1].timestamp = 5 * MsPerMinute
    /\ events[1][2].event = "complete" /\ events[1][2].timestamp = 10 * MsPerMinute
    /\ events[1][3].event = "start" /\ events[1][3].activity = "Review"
    /\ \A i \in 1..3 : events[1][i].caseId = 1
    /\ metrics[1][1].waitingTime = [a \in {"Review"} |-> Num(2)]

(* the invocations of fn that failed                                       *)
FailedInvocations == { i \in 1..Len(invocations) : ~ invocations[i].ok }

(* C26. Retry bound and outcome: withRetry with maxRetries >= 1 invokes fn *)
(* at most maxRetries times, one after the other; it returns the value of  *)
(* the first successful invocation, after which fn is not invoked again;   *)
(* when all maxRetries invocations fail it throws the error of the last    *)
(* one (what that invocation threw, as an Error with the same message when *)
(* it was not one); an error of any kind, configuration errors included,   *)
(* is retried;                                                             *)
(* and after the failed attempt k < maxRetries it sleeps 1000 * 2^(k-1)    *)
(* ms, never after the last attempt.                                       *)
RetryBound ==
    (retryPc # "idle" /\ maxRetries >= 1) =>
        /\ Len(invocations) <= maxRetries
        /\ \A i \in 1..(Len(invocations) - 1) : ~ invocations[i].ok
        /\ (outcome # None /\ outcome[1].kind = "returned") <=>
             (invocations # <<>> /\ invocations[Len(invocations)].ok)
        /\ (outcome # None /\ outcome[1].kind = "returned") =>
             outcome[1].value = invocations[Len(invocations)].value
        /\ (outcome # None /\ outcome[1].kind = "threw") =>
             /\ Len(invocations) = maxRetries
             /\ FailedInvocations = 1..maxRetries
             /\ outcome[1].value = Some(AsError(invocations[maxRetries].value))
        /\ (FailedInvocations = 1..Len(invocations)
              /\ Len(invocations) < maxRetries) =>
             (outcome = None /\ retryPc \in {"loop", "sleeping"})
        /\ sleeps = [ k \in 1..Cardinality(FailedInvocations
                                             \cap 1..(maxRetries - 1)) |->
                        1000 * Pow2(k - 1) ]

(* C26 witness: with maxRetries = 3, fn failed with a configuration error, *)
(* then with a value that is not an Error, then succeeded; withRetry slept *)
(* 1000 and 2000 ms and returned the value.                                *)
RetryBoundWitness ==
    /\ maxRetries = 3
    /\ Len(invocations) = 3
    /\ invocations[1] = [ok |-> FALSE,
                         value |-> [isError |-> TRUE,
                                    message |-> "Unsupported AI model"]]
    /\ ~ invocations[2].ok /\ ~ invocations[2].value.isError
    /\ invocations[3].ok
    /\ sleeps = <<1000, 2000>>
    /\ outcome = Some([kind |-> "returned", value |-> "text"])

(* C27. Upload clean-up: for a request to analyze-pdf or pdf-to-bpmn that  *)
(* came with a file, on every path (the analysis succeeds, the analysis    *)
(* throws, the BPMN generation throws) the uploaded file no longer exists  *)
(* once the response is sent, exactly one response is sent, and in the     *)
(* pipeline generateBPMN is invoked only after the analysis has succeeded. *)
UploadCleanup ==
    \A q \in Requests :
       reqFile[q] # None =>
          /\ Len(responses[q]) <= 1
          /\ (handlerPc[q] = "finished") <=> (Len(responses[q]) = 1)
          /\ responses[q] # <<>> => reqFile[q][1] \notin uploads
          /\ responses[q] = <<>> => reqFile[q][1] \in uploads
          /\ bpmnCalls[q] <= 1
          /\ bpmnCalls[q] = 1 =>
               /\ route[q] = "pdf-to-bpmn"
               /\ analysisResult[q] # None

(* C27 witness: a pipeline request whose BPMN generation threw has got its *)
(* response 500 and a request to analyze-pdf its response 200; the file of *)
(* neither is left.                                                        *)
UploadCleanupWitness ==
    /\ route[1] = "pdf-to-bpmn"
    /\ bpmnCalls[1] = 1
    /\ responses[1] = <<500>>
    /\ route[2] = "analyze-pdf"
    /\ responses[2] = <<200>>
    /\ reqFile[1] # None /\ reqFile[2] # None
    /\ uploads = {}

(* the log of call c is a sequence of adjacent pairs, a 'start' event      *)
(* followed by the 'complete' event of the same case and activity, and the *)
(* case ids never decrease along it                                        *)
PairedBlocks(log) ==
    /\ Len(log) % 2 = 0
    /\ \A i \in 1..Len(log) :
         i % 2 = 1 =>
            /\ log[i].event = "start"
            /\ log[i + 1].event = "complete"
            /\ log[i + 1].caseId = log[i].caseId
            /\ log[i + 1].activityId = log[i].activityId
    /\ \A i, j \in 1..Len(log) : i < j => log[i].caseId <= log[j].caseId

(* C28. Log structure: the log simulateProcess builds and returns is the   *)
(* concatenation, by ascending case id, of one contiguous block per case,  *)
(* each block a sequence of adjacent pairs ('start' then 'complete' of the *)
(* same case and activity) in the order in which the activities were       *)
(* dequeued; it is ordered by emission and need not be sorted by           *)
(* timestamp.                                                              *)
LogStructure ==
    [][ /\ pc'[1] \in {"loop", "case", "await", "returned"} => PairedBlocks(events'[1])
        /\ Executes =>
             /\ Len(events'[1]) = Len(events[1]) + 2
             /\ SubSeq(events'[1], 1, Len(events[1])) = events[1]
             /\ events'[1][Len(events'[1])].activityId = HeadItem(1).activityId
             /\ events'[1][Len(events'[1])].caseId = caseId[1]
        /\ (pc[1] = "case" /\ ~ Executes) => events'[1] = events[1] ]_vars

(* C28 witness: the returned log holds two cases in which A2 was dequeued  *)
(* before A3, and it is not sorted by timestamp: the 'complete' event of   *)
(* A2 at minute 15 comes before the 'start' event of A3 at minute 10.      *)
LogStructureWitness ==
    /\ pc[1] = "returned"
    /\ numInstances[1] = 2
    /\ Len(events[1]) = 12
    /\ \A k \in {0, 6} :
         /\ events[1][k + 4].activityId = "A2"
         /\ events[1][k + 4].timestamp = StartTime + 15 * MsPerMinute
         /\ events[1][k + 5].activityId = "A3"
         /\ events[1][k + 5].timestamp = StartTime + 10 * MsPerMinute

(* the 'complete' events of the current case of call 1 that lie before     *)
(* place n of the log, are stamped t and belong to an activity with a flow *)
(* to the activity id                                                      *)
Predecessors(log, n, id, t) ==
    { i \in 1..(n - 1) :
        /\ log[i].caseId = caseId[1]
        /\ log[i].event = "complete"
        /\ log[i].timestamp = t
        /\ \E f \in 1..Len(processStructure.flows) :
             /\ processStructure.flows[f].from = log[i].activityId
             /\ processStructure.flows[f].to = id }

(* C29. Arrival time of a re-convergent activity: the 'start' event of a   *)
(* non-entry activity is stamped with the time of the item dequeued for    *)
(* it, the 'complete' timestamp of an earlier-logged activity of the case  *)
(* that has a flow to it, the one whose item reached the head of the queue *)
(* first (items are queued only for the flows that fired, stamped with the *)
(* completion time of their source); an item dequeued for an activity      *)
(* already visited is discarded whatever its time; and no timestamp        *)
(* precedes the case start time.                                           *)
ArrivalTime ==
    [][ /\ Executes =>
             LET n == Len(events[1])
                 s == events'[1][n + 1]
             IN  /\ s.event = "start"
                 /\ s.timestamp = HeadItem(1).time
                 /\ s.activityId # modifiedActivities[1][1].id =>
                      Predecessors(events[1], n + 1, s.activityId,
                                   s.timestamp) # {}
                 /\ \A m \in 1..Len(Appended) :
                      /\ Appended[m].time = events'[1][n + 2].timestamp
                      /\ \E f \in 1..Len(processStructure.flows) :
                           LET flow == processStructure.flows[f]
                           IN  /\ flow.from = s.activityId
                               /\ flow.to = Appended[m].activityId
                               /\ \/ ~ Labelled(flow)
                                  \/ lastDraws'[1][DrawPlace(s.activityId, f)]
                                       < (IF flow.probability = None THEN 100
                                          ELSE flow.probability[1])
        /\ ( /\ pc[1] = "case"
             /\ queue[1] # <<>>
             /\ HeadItem(1).activityId \in visitedActivities[1] )
           => /\ events'[1] = events[1]
              /\ queue'[1] = Tail(queue[1])
        /\ pc'[1] \in {"loop", "case", "await", "returned"} =>
             \A i \in 1..Len(events'[1]) : events'[1][i].timestamp >= StartTime
      ]_vars

(* C29 witness: A3 has flows from A1 (completed at minute 10) and from A2  *)
(* (completed at minute 15); it started at minute 10, and the item that A2 *)
(* queued for it at minute 15 is at the head of the queue, to be           *)
(* discarded.                                                              *)
ArrivalTimeWitness ==
    /\ pc[1] = "case"
    /\ visitedActivities[1] = {"A1", "A2", "A3"}
    /\ queue[1] = << [activityId |-> "A3", time |-> StartTime + 15 * MsPerMinute] >>
    /\ \E i \in 1..Len(events[1]) :
         /\ events[1][i].activityId = "A3"
         /\ events[1][i].event = "start"
         /\ events[1][i].timestamp = StartTime + 10 * MsPerMinute

(* C30. Work-queue bound: during a case at most 1 + (number of flows)      *)
(* items are ever put into the queue, so the queue is never longer than    *)
(* that, and the queue is empty when simulateCase returns.                 *)
QueueBound ==
    /\ pc[1] = "case" =>
         /\ enqueued[1] <= 1 + Len(processStructure.flows)
         /\ Len(queue[1]) <= enqueued[1]
         /\ enqueued[1] >= 1
    /\ pc[1] \in {"await", "loop", "returned"} => queue[1] = <<>>

(* C30 witness: in a second case over three flows that all fired, four     *)
(* items were put into the queue, the queue is empty and simulateCase is   *)
(* about to return.                                                        *)
QueueBoundWitness ==
    /\ pc[1] = "case"
    /\ caseId[1] = 2
    /\ Len(processStructure.flows) = 3
    /\ enqueued[1] = 4
    /\ queue[1] = <<>>

====
